---- MODULE Spec2Model ----
(***************************************************************************)
(* Janee: the request-mediation pipeline of the credential broker.         *)
(*                                                                         *)
(*   - SessionManager (src/src/core/mcp-server.ts, 312-414): the session   *)
(*     table, the per-session cleanup timers and the lazy expiry checks.   *)
(*   - The tool-call handler of createMCPServer (same file, 158-279):      *)
(*     list_services, execute, get_http_access.                            *)
(*   - serveMCPCommand.onExecute (src/unnamed/part_001, 361-452):          *)
(*     credential injection, the upstream call and the audit record.       *)
(*   - FilesystemProvider (src/unnamed/part_003) and the provider registry *)
(*     (src/unnamed/part_004, 1-125): secret paths, the files behind them  *)
(*     and the lookup of a secret reference.                               *)
(*                                                                         *)
(* JavaScript runs each handler to its first await without interruption,   *)
(* so the synchronous part of a tool call is one action and the arrival    *)
(* of the upstream response (or failure) is another.                       *)
(*                                                                         *)
(* Strings the code inspects character by character (ttl, path, baseUrl)   *)
(* are sequences of one-character strings.  An optional property of a      *)
(* JavaScript object that is undefined is a field missing from the record. *)
(***************************************************************************)
EXTENDS Integers, Sequences, FiniteSets, TLC

(***************************************************************************)
(* Bounds of the model.                                                    *)
(***************************************************************************)
\* tool calls (execute, get_http_access) made in one behaviour
MaxCalls == 2
\* advances of the clock in one behaviour
MaxTicks == 3
\* secrets provider objects constructed in one behaviour
MaxProviders == 2

(***************************************************************************)
(* Small helpers.                                                          *)
(***************************************************************************)
Has(obj, k) == k \in DOMAIN obj

Range(f) == {f[x] : x \in DOMAIN f}

\* the object {}
EmptyObj == <<>>

\* {...a, ...b} and Object.assign(a, b): the properties of b win
Assign(a, b) == b @@ a

\* obj with the properties in ks removed
Without(obj, ks) == [k \in (DOMAIN obj) \ ks |-> obj[k]]

\* a JavaScript string used as a condition: absent (undefined) and "" are falsy
TruthyStr(obj, k) == Has(obj, k) /\ obj[k] # ""

\* an optional boolean used as a condition
TruthyBool(obj, k) == Has(obj, k) /\ obj[k] = TRUE

Digits == {"0", "1", "2", "3", "4", "5", "6", "7", "8", "9"}

DigitValue(c) ==
    CASE c = "0" -> 0 [] c = "1" -> 1 [] c = "2" -> 2 [] c = "3" -> 3
      [] c = "4" -> 4 [] c = "5" -> 5 [] c = "6" -> 6 [] c = "7" -> 7
      [] c = "8" -> 8 [] c = "9" -> 9

(***************************************************************************)
(* Time.  Date values are milliseconds since the epoch; a ttl of 25 days   *)
(* is 2 160 000 000 ms, so an instant is kept as whole seconds plus        *)
(* milliseconds and compared lexicographically.                            *)
(***************************************************************************)
MsPerSecond == 1000

Instant(s, ms) == [s |-> s, ms |-> ms]

TimeLT(a, b) == a.s < b.s \/ (a.s = b.s /\ a.ms < b.ms)

TimeLE(a, b) == a = b \/ TimeLT(a, b)

\* t + n * 1000 ms
AddSeconds(t, n) == Instant(t.s + n, t.ms)

\* t + n ms
AddMs(t, n) == Instant(t.s + ((t.ms + n) \div MsPerSecond), (t.ms + n) % MsPerSecond)

(***************************************************************************)
(* parseTTL                                                                *)
(***************************************************************************)
TTLUnits == {"s", "m", "h", "d"}

\* ttl.match(/^(\d+)([smhd])$/)
TTLMatches(ttl) ==
    /\ Len(ttl) >= 2
    /\ ttl[Len(ttl)] \in TTLUnits
    /\ \A i \in 1..(Len(ttl) - 1) : ttl[i] \in Digits

RECURSIVE ParseInt(_)
\* parseInt of a run of decimal digits
ParseInt(ds) ==
    IF ds = <<>> THEN 0
    ELSE 10 * ParseInt(SubSeq(ds, 1, Len(ds) - 1)) + DigitValue(ds[Len(ds)])

Multiplier(unit) ==
    CASE unit = "s" -> 1 [] unit = "m" -> 60 [] unit = "h" -> 3600 [] unit = "d" -> 86400

\* the seconds parseTTL returns for a ttl it accepts
parseTTL(ttl) == ParseInt(SubSeq(ttl, 1, Len(ttl) - 1)) * Multiplier(ttl[Len(ttl)])

(***************************************************************************)
(* Configuration: the services and capabilities handed to createMCPServer. *)
(* Services(v) is the service map with the v-th set of credential values:  *)
(* two configurations that differ in nothing but the secrets.              *)
(***************************************************************************)
SecretVariants == {1, 2}

\* the credential value stored in field `field` of service `name`
Secret(name, field, v) == name \o "." \o field \o "#" \o ToString(v)

Services(v) ==
    [ stripe |-> [ baseUrl |-> <<"s", "/">>,
                   auth |-> [ type |-> "bearer", key |-> Secret("stripe", "key", v) ] ],
      vault  |-> [ baseUrl |-> <<"v">>,
                   auth |-> [ type |-> "headers",
                              headers |-> ("X-Vault-Token" :> Secret("vault", "token", v)) ] ],
      mexc   |-> [ baseUrl |-> <<"m">>,
                   auth |-> [ type |-> "hmac",
                              apiKey |-> Secret("mexc", "apiKey", v),
                              apiSecret |-> Secret("mexc", "apiSecret", v) ] ],
      bybit  |-> [ baseUrl |-> <<"b">>,
                   auth |-> [ type |-> "hmac-bybit",
                              apiKey |-> Secret("bybit", "apiKey", v),
                              apiSecret |-> Secret("bybit", "apiSecret", v) ] ],
      okx    |-> [ baseUrl |-> <<"o">>,
                   auth |-> [ type |-> "hmac-okx",
                              apiKey |-> Secret("okx", "apiKey", v),
                              apiSecret |-> Secret("okx", "apiSecret", v),
                              passphrase |-> Secret("okx", "passphrase", v) ] ],
      \* descriptors that lack what their type needs, and a type onExecute does not know
      plain    |-> [ baseUrl |-> <<"p">>, auth |-> [ type |-> "bearer" ] ],
      halfmexc |-> [ baseUrl |-> <<"h">>,
                     auth |-> [ type |-> "hmac", apiKey |-> Secret("halfmexc", "apiKey", v) ] ],
      halfokx  |-> [ baseUrl |-> <<"k">>,
                     auth |-> [ type |-> "hmac-okx",
                                apiKey |-> Secret("halfokx", "apiKey", v),
                                apiSecret |-> Secret("halfokx", "apiSecret", v) ] ],
      oauth    |-> [ baseUrl |-> <<"a">>,
                     auth |-> [ type |-> "oauth2", key |-> Secret("oauth", "key", v) ] ] ]

\* the configuration the broker runs with
services == Services(1)

\* every credential value of the service map
CredentialValues(svcs) ==
    UNION { {svcs[n].auth[f] : f \in (DOMAIN svcs[n].auth) \ {"type", "headers"}}
            \cup (IF Has(svcs[n].auth, "headers") THEN Range(svcs[n].auth.headers) ELSE {})
          : n \in DOMAIN svcs }

\* the property names of an authentication descriptor
AuthFields == {"type", "key", "apiKey", "apiSecret", "passphrase", "headers"}

Rule(effect, method, path) == [effect |-> effect, method |-> method, path |-> path]

\* the capabilities array, in configuration order (loadConfigForMCP)
capabilities ==
    << [ name |-> "stripe_readonly", service |-> "stripe", ttl |-> <<"1", "h">>,
         rules |-> << Rule("allow", "GET", <<"*">>), Rule("deny", "POST", <<"*">>) >> ],
       [ name |-> "vault_read", service |-> "vault", ttl |-> <<"3", "0", "m">>,
         autoApprove |-> TRUE,
         rules |-> << Rule("allow", "GET", <<"*">>) >> ],
       [ name |-> "mexc_trade", service |-> "mexc", ttl |-> <<"1", "0", "s">>,
         autoApprove |-> FALSE, requiresReason |-> FALSE,
         rules |-> << >> ],
       [ name |-> "bybit_trade", service |-> "bybit", ttl |-> <<"2", "5", "d">>,
         requiresReason |-> TRUE,
         rules |-> << Rule("deny", "POST", <<"/", "x">>), Rule("allow", "*", <<"*">>) >> ],
       [ name |-> "okx_trade", service |-> "okx", ttl |-> <<"1", "h">>,
         autoApprove |-> TRUE, requiresReason |-> TRUE,
         rules |-> << Rule("allow", "POST", <<"/", "x">>), Rule("deny", "*", <<"*">>) >> ],
       [ name |-> "orphan", service |-> "gone", ttl |-> <<"1", "h">>,
         rules |-> << Rule("allow", "*", <<"*">>) >> ],
       [ name |-> "plain_read", service |-> "plain", ttl |-> <<"1", "h">>,
         rules |-> << Rule("allow", "*", <<"*">>) >> ],
       [ name |-> "halfmexc_trade", service |-> "halfmexc", ttl |-> <<"1", "h">>,
         rules |-> << Rule("allow", "*", <<"*">>) >> ],
       [ name |-> "halfokx_trade", service |-> "halfokx", ttl |-> <<"1", "h">>,
         rules |-> << Rule("allow", "*", <<"*">>) >> ],
       [ name |-> "oauth_read", service |-> "oauth", ttl |-> <<"1", "h">>,
         rules |-> << Rule("allow", "*", <<"*">>) >> ],
       [ name |-> "instant", service |-> "plain", ttl |-> <<"0", "s">>,
         rules |-> << Rule("allow", "*", <<"*">>) >> ],
       [ name |-> "weekly", service |-> "plain", ttl |-> <<"1", "w">>,
         rules |-> << Rule("allow", "*", <<"*">>) >> ] >>

proxyUrl == "http://localhost:9119"

\* capabilities.find(c => c.name === capability): the index of the first match, 0 if none
FindCapability(caps, name) ==
    IF \E i \in DOMAIN caps : caps[i].name = name
    THEN CHOOSE i \in DOMAIN caps :
            caps[i].name = name /\ \A j \in DOMAIN caps : caps[j].name = name => i <= j
    ELSE 0

(***************************************************************************)
(* SessionManager                                                          *)
(***************************************************************************)
\* the largest delay a timer accepts; setTimeout replaces any other delay by 1 ms
TIMEOUT_MAX == 2147483647

\* a generator that returns the same token at every call
generateTokenRepeated(prefix, n) == prefix

\* the token of the n-th call of generateToken (tokens are never repeated)
generateToken(prefix, n) == prefix \o "_" \o ToString(n)

\* a createSession that hands out one capability's session whatever it is asked for
NewSessionOfFirst(id, capability, service, ttlSeconds, options, t) ==
    Assign( [ id |-> id, capability |-> capabilities[1].name,
              service |-> capabilities[1].service,
              createdAt |-> t, expiresAt |-> AddSeconds(t, ttlSeconds),
              revoked |-> FALSE ],
            options )

\* the record createSession builds at instant `t`
NewSession(id, capability, service, ttlSeconds, options, t) ==
    Assign( [ id |-> id, capability |-> capability, service |-> service,
              createdAt |-> t, expiresAt |-> AddSeconds(t, ttlSeconds),
              revoked |-> FALSE ],
            options )

\* when the timer of setTimeout(cb, ttlSeconds * 1000), armed at `t`, is due
TimerDue(t, ttlSeconds) ==
    IF ttlSeconds >= 1 /\ ttlSeconds <= TIMEOUT_MAX \div MsPerSecond
    THEN AddSeconds(t, ttlSeconds)
    ELSE AddMs(t, 1)

\* new Date() > session.expiresAt
Expired(session, t) == TimeLT(session.expiresAt, t)

\* what getSession deletes: the record, if it is revoked or expired
GetSessionTable(table, sessionId, t) ==
    IF sessionId \in DOMAIN table /\ (table[sessionId].revoked \/ Expired(table[sessionId], t))
    THEN Without(table, {sessionId})
    ELSE table

\* what getSession returns: the set holding the session, or {} for undefined
GetSessionResult(table, sessionId, t) ==
    IF sessionId \in DOMAIN table
       /\ ~(table[sessionId].revoked \/ Expired(table[sessionId], t))
    THEN {table[sessionId]}
    ELSE {}

\* a revocation that leaves the record in the table
RevokeSessionTableKept(table, sessionId) == table

\* a revocation that reports success whatever the table holds
RevokeSessionResultAlways(table, sessionId) == TRUE

\* what revokeSession returns
RevokeSessionResult(table, sessionId) == sessionId \in DOMAIN table

\* the table revokeSession leaves
RevokeSessionTable(table, sessionId) == Without(table, {sessionId})

\* the sessions listSessions returns: !session.revoked && now <= session.expiresAt
ListSessionsResult(table, t) ==
    {table[id] : id \in {i \in DOMAIN table :
                            ~table[i].revoked /\ TimeLE(t, table[i].expiresAt)}}

\* the table listSessions leaves
ListSessionsTable(table, t) ==
    [id \in {i \in DOMAIN table : ~table[i].revoked /\ TimeLE(t, table[i].expiresAt)}
        |-> table[id]]

\* the table cleanup leaves
CleanupTable(table, t) ==
    [id \in {i \in DOMAIN table : ~(table[i].revoked \/ Expired(table[i], t))}
        |-> table[id]]

(***************************************************************************)
(* onExecute (serveMCPCommand): target URL, credential injection, request. *)
(***************************************************************************)
\* Date.now().toString(): the decimal milliseconds of instant t (t.s >= 1)
Pad3(ms) == IF ms < 10 THEN "00" \o ToString(ms)
            ELSE IF ms < 100 THEN "0" \o ToString(ms) ELSE ToString(ms)

TimestampString(t) == ToString(t.s) \o Pad3(t.ms)

\* new Date().toISOString().slice(0, -1) + 'Z'
IsoString(t) == "iso:" \o ToString(t.s) \o "." \o Pad3(t.ms) \o "Z"

RECURSIVE Join(_)
\* the JavaScript string spelled by a sequence of characters
Join(cs) == IF cs = <<>> THEN "" ELSE Head(cs) \o Join(Tail(cs))

\* the position of the first ch in cs, or 0
IndexOf(cs, ch) ==
    IF \E i \in 1..Len(cs) : cs[i] = ch
    THEN CHOOSE i \in 1..Len(cs) : cs[i] = ch /\ \A j \in 1..(i - 1) : cs[j] # ch
    ELSE 0

\* if (!baseUrl.endsWith('/')) baseUrl += '/'
BaseWithSlash(baseUrl) ==
    IF Len(baseUrl) > 0 /\ baseUrl[Len(baseUrl)] = "/" THEN baseUrl ELSE Append(baseUrl, "/")

\* if (reqPath.startsWith('/')) reqPath = reqPath.slice(1)
StripLeadingSlash(path) ==
    IF Len(path) > 0 /\ Head(path) = "/" THEN Tail(path) ELSE path

RECURSIVE Split(_, _)
\* the pieces of cs between the occurrences of ch
Split(cs, ch) ==
    LET k == IndexOf(cs, ch) IN
    IF k = 0 THEN <<cs>>
    ELSE <<SubSeq(cs, 1, k - 1)>> \o Split(SubSeq(cs, k + 1, Len(cs)), ch)

\* url.searchParams: the non-empty pieces between "&", each cut at its first "="
\* (the model's strings hold no character that is escaped or unescaped here)
SearchParams(search) ==
    LET parts == SelectSeq(Split(search, "&"), LAMBDA part : part # <<>>)
        Param(part) ==
            LET k == IndexOf(part, "=") IN
            IF k = 0 THEN [name |-> Join(part), value |-> ""]
            ELSE [ name |-> Join(SubSeq(part, 1, k - 1)),
                   value |-> Join(SubSeq(part, k + 1, Len(part))) ]
    IN  [k \in DOMAIN parts |-> Param(parts[k])]

RECURSIVE ParamsToString(_)
\* searchParams.toString(): name=value, joined by "&"
ParamsToString(params) ==
    IF params = <<>> THEN ""
    ELSE Head(params).name \o "=" \o Head(params).value
         \o (IF Len(params) > 1 THEN "&" ELSE "") \o ParamsToString(Tail(params))

\* new URL(reqPath, baseUrl) for a relative reqPath: href up to '?', the query
\* after it (targetUrl.search without its '?') and the parameters of that query
TargetUrl(reqPath, baseUrl) ==
    LET q == IndexOf(reqPath, "?")
        pathname == IF q = 0 THEN reqPath ELSE SubSeq(reqPath, 1, q - 1)
        search == IF q = 0 THEN <<>> ELSE SubSeq(reqPath, q + 1, Len(reqPath))
    IN  [ origin |-> Join(baseUrl) \o Join(pathname), query |-> Join(search),
          params |-> SearchParams(search) ]

\* a set that leaves the parameters there are and adds one more
ParamsSetAppended(params, name, value, done) ==
    Append(params, [name |-> name, value |-> value])

RECURSIVE ParamsSet(_, _, _, _)
\* the parameter list after set(name, value): the first parameter of that name
\* takes the value and the others of that name go; appended if there is none
ParamsSet(params, name, value, done) ==
    IF params = <<>> THEN (IF done THEN <<>> ELSE <<[name |-> name, value |-> value]>>)
    ELSE IF Head(params).name # name
         THEN <<Head(params)>> \o ParamsSet(Tail(params), name, value, done)
    ELSE IF done THEN ParamsSet(Tail(params), name, value, TRUE)
    ELSE <<[name |-> name, value |-> value]>> \o ParamsSet(Tail(params), name, value, TRUE)

\* targetUrl.searchParams.set(name, value): the query becomes the serialised list
SetParam(url, name, value) ==
    LET params == ParamsSet(url.params, name, value, FALSE)
    IN  [url EXCEPT !.params = params, !.query = ParamsToString(params)]

\* createHmac('sha256', key).update(payload).digest(encoding)
Hmac(key, payload, encoding) == "hmac-sha256-" \o encoding \o "(" \o key \o "," \o payload \o ")"

BodyOrEmpty(request) == IF TruthyStr(request, "body") THEN request.body ELSE ""

\* request.method.toUpperCase(), on the method names of the model
ToUpperCase(m) ==
    CASE m = "get" -> "GET" [] m = "post" -> "POST" [] m = "put" -> "PUT"
      [] m = "delete" -> "DELETE" [] m = "patch" -> "PATCH" [] OTHER -> m

\* the body as the payload only when there is one, the query string otherwise
BybitPayloadDataBodyIfAny(method, request, queryString) ==
    IF method \in {"POST", "PUT"} /\ TruthyStr(request, "body") THEN request.body
    ELSE queryString

\* (method === 'POST' || method === 'PUT') ? (request.body || '') : queryString
BybitPayloadData(method, request, queryString) ==
    IF method \in {"POST", "PUT"} THEN BodyOrEmpty(request) ELSE queryString

\* `Inject auth`: the headers object and the target URL after the branch taken
InjectAuth(auth, request, url, reqPath, t) ==
    LET headers == request.headers
        method == ToUpperCase(request.method)
    IN
    IF auth.type = "bearer" /\ TruthyStr(auth, "key")
    THEN [ headers |-> Assign(headers, ("Authorization" :> "Bearer " \o auth.key)),
           url |-> url ]
    ELSE IF auth.type = "headers" /\ Has(auth, "headers")
    THEN [ headers |-> Assign(headers, auth.headers), url |-> url ]
    ELSE IF auth.type = "hmac" /\ TruthyStr(auth, "apiKey") /\ TruthyStr(auth, "apiSecret")
    THEN LET stamped == SetParam(url, "timestamp", TimestampString(t))
             queryString == ParamsToString(stamped.params)
             signature == Hmac(auth.apiSecret, queryString, "hex")
         IN  [ headers |-> Assign(headers, ("X-MEXC-APIKEY" :> auth.apiKey)),
               url |-> SetParam(stamped, "signature", signature) ]
    ELSE IF auth.type = "hmac-bybit" /\ TruthyStr(auth, "apiKey") /\ TruthyStr(auth, "apiSecret")
    THEN LET timestamp == TimestampString(t)
             recvWindow == "5000"
             queryString == ParamsToString(url.params)
             payloadData == BybitPayloadData(method, request, queryString)
             signPayload == timestamp \o auth.apiKey \o recvWindow \o payloadData
         IN  [ headers |-> Assign(headers,
                              ("X-BAPI-API-KEY" :> auth.apiKey)
                                @@ ("X-BAPI-TIMESTAMP" :> timestamp)
                                @@ ("X-BAPI-SIGN" :> Hmac(auth.apiSecret, signPayload, "hex"))
                                @@ ("X-BAPI-RECV-WINDOW" :> recvWindow)),
               url |-> url ]
    ELSE IF auth.type = "hmac-okx" /\ TruthyStr(auth, "apiKey") /\ TruthyStr(auth, "apiSecret")
            /\ TruthyStr(auth, "passphrase")
    THEN LET timestamp == IsoString(t)
             search == IF url.query = "" THEN "" ELSE "?" \o url.query
             requestPath == "/" \o Join(reqPath) \o search
             signPayload == timestamp \o method \o requestPath \o BodyOrEmpty(request)
         IN  [ headers |-> Assign(headers,
                              ("OK-ACCESS-KEY" :> auth.apiKey)
                                @@ ("OK-ACCESS-SIGN" :> Hmac(auth.apiSecret, signPayload, "base64"))
                                @@ ("OK-ACCESS-TIMESTAMP" :> timestamp)
                                @@ ("OK-ACCESS-PASSPHRASE" :> auth.passphrase)),
               url |-> url ]
    ELSE [ headers |-> headers, url |-> url ]

\* `Set Content-Type for requests with body`
WithContentType(request, headers) ==
    IF TruthyStr(request, "body") /\ ~TruthyStr(headers, "Content-Type")
       /\ ~TruthyStr(headers, "content-type")
    THEN Assign(headers, ("Content-Type" :> "application/json"))
    ELSE headers

\* const headers = request.headers: the injection writes into the request itself
RequestAfterInjectionAliased(request, headers) == [request EXCEPT !.headers = headers]

\* const headers = { ...request.headers } is a new object: the writes of the
\* injection go to it, and `request`, which is logged later, keeps its own
RequestAfterInjection(request, headers) == request

\* what makeAPIRequest is called with: the target URL and { ...request, headers }
OutboundRequest(svcs, request, t) ==
    LET serviceConfig == svcs[request.service]
        reqPath == StripLeadingSlash(request.path)
        url == TargetUrl(reqPath, BaseWithSlash(serviceConfig.baseUrl))
        injected == InjectAuth(serviceConfig.auth, request, url, reqPath, t)
    IN  [ url |-> injected.url,
          options |-> Assign(request, [headers |-> WithContentType(request, injected.headers)]) ]

RECURSIVE ValuesOf(_, _)
\* the values of the properties `keys` of obj, one after the other
ValuesOf(obj, keys) ==
    IF keys = {} THEN ""
    ELSE LET k == CHOOSE x \in keys : TRUE
         IN  " " \o obj[k] \o ValuesOf(obj, keys \ {k})

\* an error whose message quotes the request it was raised for
RequestErrorWithRequest(outbound, failure) ==
    [message |-> failure \o " " \o outbound.url.origin \o "?" \o outbound.url.query
                 \o ValuesOf(outbound.options.headers, DOMAIN outbound.options.headers)]

\* the error a failed upstream call rejects with (req.on('error', reject))
RequestError(outbound, failure) == [message |-> failure]

\* res.statusCode || 500, res.headers, the collected body
ProxyResponse(res) ==
    [ statusCode |-> IF Has(res, "statusCode") /\ res.statusCode # 0 THEN res.statusCode ELSE 500,
      headers |-> res.headers,
      body |-> res.body ]

\* the record auditLogger.log(request, response) is handed
AuditRecord(request, response) == [request |-> request, response |-> response]

(***************************************************************************)
(* The tool-call handler of createMCPServer.                               *)
(***************************************************************************)
\* cap.requiresReason && reason === undefined
ReasonMissingWhenAbsent(cap, args) == TruthyBool(cap, "requiresReason") /\ ~Has(args, "reason")

\* cap.requiresReason && !reason
ReasonMissing(cap, args) == TruthyBool(cap, "requiresReason") /\ ~TruthyStr(args, "reason")

\* { reason }: the options passed to createSession
SessionOptions(args) == IF Has(args, "reason") THEN [reason |-> args.reason] ELSE EmptyObj

\* `Build proxy request`
ProxyRequest(cap, args) ==
    Assign( [ service |-> cap.service, path |-> args.path, method |-> args.method,
              headers |-> IF Has(args, "headers") THEN args.headers ELSE EmptyObj ],
            IF Has(args, "body") THEN [body |-> args.body] ELSE EmptyObj )

\* a catch block that hands the caller the stack of the error as well
ErrorTextWithStack(message) ==
    [error |-> message, stack |-> "Error: " \o message \o "\n    at Server.<anonymous>"]

\* the catch block: { error: error.message }, isError: true
ErrorText(message) == [error |-> message]

\* an execute that answers an upstream error status with an error of its own
ExecuteTextReinterpreted(response) ==
    IF response.statusCode >= 400
    THEN [error |-> "Upstream error " \o ToString(response.statusCode)]
    ELSE [status |-> response.statusCode, body |-> response.body]

\* the text of a successful execute
ExecuteText(response) == [status |-> response.statusCode, body |-> response.body]

\* capabilities.map(cap => cap): the whole capability object
ListServicesEntryWhole(cap) == cap

\* one element of the list_services text: the five properties the handler copies,
\* of which JSON.stringify leaves out those whose value is undefined
ListServicesEntry(cap) ==
    [k \in {"name", "service", "ttl", "autoApprove", "requiresReason"} \cap DOMAIN cap |-> cap[k]]

\* the text of list_services
ListServicesText(caps) == [i \in DOMAIN caps |-> ListServicesEntry(caps[i])]

\* the text of a successful get_http_access
HttpAccessText(cap, session) ==
    [ url |-> proxyUrl \o "/" \o cap.service,
      headers |-> [Authorization |-> "Bearer " \o session.id],
      expires |-> IsoString(session.expiresAt) ]

\* the error thrown before a session is created, as a set: {} when there is none
EarlyError(caps, args) ==
    LET i == FindCapability(caps, args.capability) IN
    IF i = 0 THEN {"Unknown capability: " \o args.capability}
    ELSE IF ReasonMissing(caps[i], args)
         THEN {"Capability \"" \o args.capability \o "\" requires a reason"}
    ELSE IF ~TTLMatches(caps[i].ttl) THEN {"Invalid TTL format: " \o Join(caps[i].ttl)}
    ELSE {}

\* the error onExecute throws before it sends anything, as a set
ServiceError(svcs, request) ==
    IF request.service \in DOMAIN svcs THEN {}
    ELSE {"Service not found: " \o request.service}

(***************************************************************************)
(* Secrets providers.  A path is the sequence of its characters; the disk  *)
(* is the set of directories and the encrypted files, each under its       *)
(* absolute path.                                                          *)
(***************************************************************************)
RECURSIVE JoinWith(_, _)
\* segments.join(sep), as characters
JoinWith(segs, sep) ==
    IF segs = <<>> THEN <<>>
    ELSE IF Len(segs) = 1 THEN Head(segs)
    ELSE Head(segs) \o <<sep>> \o JoinWith(Tail(segs), sep)

RECURSIVE NormalizeSegments(_, _, _)
\* the segment walk of path.normalize: empty and "." segments go, ".." takes
\* the segment before it away and stays only where a relative path climbs
\* above its start
NormalizeSegments(segs, res, allowAboveRoot) ==
    IF segs = <<>> THEN res
    ELSE LET seg == Head(segs)
             rest == Tail(segs)
         IN  IF seg = <<>> \/ seg = <<".">>
             THEN NormalizeSegments(rest, res, allowAboveRoot)
             ELSE IF seg # <<".", ".">>
             THEN NormalizeSegments(rest, Append(res, seg), allowAboveRoot)
             ELSE IF res # <<>> /\ res[Len(res)] # <<".", ".">>
             THEN NormalizeSegments(rest, SubSeq(res, 1, Len(res) - 1), allowAboveRoot)
             ELSE IF allowAboveRoot
             THEN NormalizeSegments(rest, Append(res, seg), allowAboveRoot)
             ELSE NormalizeSegments(rest, res, allowAboveRoot)

\* path.normalize (posix)
Normalize(path) ==
    IF path = <<>> THEN <<".">>
    ELSE LET isAbsolute == Head(path) = "/"
             trailingSeparator == path[Len(path)] = "/"
             body == JoinWith(NormalizeSegments(Split(path, "/"), <<>>, ~isAbsolute), "/")
         IN  IF body = <<>>
             THEN (IF isAbsolute THEN <<"/">> ELSE IF trailingSeparator THEN <<".", "/">> ELSE <<".">>)
             ELSE (IF isAbsolute THEN <<"/">> ELSE <<>>) \o body
                  \o (IF trailingSeparator THEN <<"/">> ELSE <<>>)

RECURSIVE StripTraversal(_)
\* .replace(/^(\.\.[/\\])+/, ''): every leading ".." that a separator follows
StripTraversal(path) ==
    IF Len(path) >= 3 /\ path[1] = "." /\ path[2] = "." /\ path[3] \in {"/", "\\"}
    THEN StripTraversal(SubSeq(path, 4, Len(path)))
    ELSE path

\* path.join(dir, rel): an empty rel is left out
PathJoin(dir, rel) == Normalize(IF rel = <<>> THEN dir ELSE dir \o <<"/">> \o rel)

\* FilesystemProvider.resolvePath
resolvePath(secretsDir, secretPath) == PathJoin(secretsDir, StripTraversal(Normalize(secretPath)))

\* the directories above an absolute path
Ancestors(path) == {<<"/">>} \cup {SubSeq(path, 1, k - 1) : k \in {j \in 2..Len(path) : path[j] = "/"}}

\* path lies below dir
Below(dir, path) ==
    /\ Len(path) > Len(dir) + 1
    /\ SubSeq(path, 1, Len(dir) + 1) = dir \o <<"/">>

\* fs.existsSync
ExistsSync(dsk, path) == path \in DOMAIN dsk.files \/ path \in dsk.dirs

\* a thrown Error
Thrown(message) == [kind |-> "error", message |-> message]

\* encryptSecret(value, masterKey): decryptable under that key and no other
encryptSecret(value, masterKey) == [key |-> masterKey, value |-> value]

\* decryptSecret(encrypted, masterKey): the set holding the value, empty when it throws
decryptSecret(encrypted, masterKey) ==
    IF encrypted.key = masterKey THEN {encrypted.value} ELSE {}

\* the object the constructor of FilesystemProvider builds
NewProvider(config) ==
    [ name |-> config.name, secretsDir |-> config.config.path,
      masterKey |-> config.config.masterKey, initialized |-> FALSE ]

\* a provider that lets every operation through
ensureInitializedNever(provider) == {}

\* ensureInitialized: the error it throws, as a set
ensureInitialized(provider) ==
    IF provider.initialized THEN {}
    ELSE {Thrown("FilesystemProvider \"" \o provider.name
                 \o "\": not initialized. Call initialize() first.")}

\* initialize: mkdirSync(secretsDir, { recursive: true }) fails where a file is in the way
InitializeOutcome(provider, dsk) ==
    LET dir == provider.secretsDir IN
    IF ExistsSync(dsk, dir) THEN [ok |-> TRUE, disk |-> dsk]
    ELSE IF \E a \in Ancestors(dir) : a \in DOMAIN dsk.files
    THEN [ok |-> FALSE, disk |-> dsk]
    ELSE [ok |-> TRUE, disk |-> [dsk EXCEPT !.dirs = @ \cup Ancestors(dir) \cup {dir}]]

\* a getSecret that reports a value it cannot decrypt as missing
GetSecretOutcomeLenient(provider, dsk, secretPath) ==
    IF ensureInitialized(provider) # {}
    THEN [result |-> CHOOSE e \in ensureInitialized(provider) : TRUE, target |-> {}]
    ELSE LET filePath == resolvePath(provider.secretsDir, secretPath) IN
         IF filePath \in DOMAIN dsk.files
            /\ decryptSecret(dsk.files[filePath], provider.masterKey) # {}
         THEN [ result |-> [ kind |-> "value",
                             value |-> CHOOSE v \in decryptSecret(dsk.files[filePath],
                                                                  provider.masterKey) : TRUE ],
                target |-> {filePath} ]
         ELSE [result |-> [kind |-> "null"], target |-> {filePath}]

\* getSecret: what it returns or throws, and the file it went to
GetSecretOutcome(provider, dsk, secretPath) ==
    IF ensureInitialized(provider) # {}
    THEN [result |-> CHOOSE e \in ensureInitialized(provider) : TRUE, target |-> {}]
    ELSE LET filePath == resolvePath(provider.secretsDir, secretPath) IN
         IF ~ExistsSync(dsk, filePath)
         THEN [result |-> [kind |-> "null"], target |-> {filePath}]
         ELSE IF filePath \in DOMAIN dsk.files
                 /\ decryptSecret(dsk.files[filePath], provider.masterKey) # {}
         THEN [ result |-> [ kind |-> "value",
                             value |-> CHOOSE v \in decryptSecret(dsk.files[filePath],
                                                                  provider.masterKey) : TRUE ],
                target |-> {filePath} ]
         ELSE [ result |-> Thrown("FilesystemProvider \"" \o provider.name
                                  \o "\": failed to decrypt"),
                target |-> {filePath} ]

\* setSecret: mkdirSync of the directory, then writeFileSync
SetSecretOutcome(provider, dsk, secretPath, value) ==
    IF ensureInitialized(provider) # {}
    THEN [result |-> CHOOSE e \in ensureInitialized(provider) : TRUE, target |-> {}, disk |-> dsk]
    ELSE LET filePath == resolvePath(provider.secretsDir, secretPath) IN
         IF \E a \in Ancestors(filePath) : a \in DOMAIN dsk.files
         THEN [result |-> Thrown("ENOTDIR"), target |-> {filePath}, disk |-> dsk]
         ELSE IF filePath \in dsk.dirs
         THEN [ result |-> Thrown("EISDIR"), target |-> {filePath},
                disk |-> [dsk EXCEPT !.dirs = @ \cup Ancestors(filePath)] ]
         ELSE [ result |-> [kind |-> "ok"], target |-> {filePath},
                disk |-> [ files |-> Assign(dsk.files,
                                            filePath :> encryptSecret(value, provider.masterKey)),
                           dirs |-> dsk.dirs \cup Ancestors(filePath) ] ]

\* deleteSecret: unlinkSync of the file if it exists
DeleteSecretOutcome(provider, dsk, secretPath) ==
    IF ensureInitialized(provider) # {}
    THEN [result |-> CHOOSE e \in ensureInitialized(provider) : TRUE, target |-> {}, disk |-> dsk]
    ELSE LET filePath == resolvePath(provider.secretsDir, secretPath) IN
         IF filePath \in dsk.dirs
         THEN [result |-> Thrown("EISDIR"), target |-> {filePath}, disk |-> dsk]
         ELSE [ result |-> [kind |-> "ok"], target |-> {filePath},
                disk |-> [dsk EXCEPT !.files = Without(@, {filePath})] ]

\* listSecrets: the files walkDir finds below path.join(secretsDir, prefix),
\* each as path.relative(secretsDir, file): the segments the two paths share
\* are dropped and a ".." stands for every further segment of secretsDir
ListSecretsOutcome(provider, dsk, prefix) ==
    IF ensureInitialized(provider) # {}
    THEN [ result |-> CHOOSE e \in ensureInitialized(provider) : TRUE,
           target |-> {}, listed |-> {} ]
    ELSE LET searchDir == IF prefix # <<>> THEN PathJoin(provider.secretsDir, prefix)
                          ELSE provider.secretsDir
             from == Split(Tail(provider.secretsDir), "/")
             relative(file) ==
                 LET to == Split(Tail(file), "/")
                     shared == CHOOSE k \in 0..Len(from) :
                                  /\ k <= Len(to)
                                  /\ SubSeq(from, 1, k) = SubSeq(to, 1, k)
                                  /\ \A j \in (k + 1)..Len(from) :
                                        j > Len(to) \/ SubSeq(from, 1, j) # SubSeq(to, 1, j)
                 IN  JoinWith([j \in 1..(Len(from) - shared) |-> <<".", ".">>]
                                \o SubSeq(to, shared + 1, Len(to)), "/")
             walkDir == {g \in DOMAIN dsk.files : searchDir = <<"/">> \/ Below(searchDir, g)}
         IN  IF ~ExistsSync(dsk, searchDir)
             THEN [ result |-> [kind |-> "list", value |-> {}],
                    target |-> {searchDir}, listed |-> {} ]
             ELSE IF searchDir \in DOMAIN dsk.files
             THEN [result |-> Thrown("ENOTDIR"), target |-> {searchDir}, listed |-> {}]
             ELSE [ result |-> [kind |-> "list", value |-> {relative(f) : f \in walkDir}],
                    target |-> {searchDir}, listed |-> walkDir ]

(***************************************************************************)
(* The provider registry.                                                  *)
(***************************************************************************)
\* the types registerProviderType has been called with when the module is loaded
factories == {"filesystem", "env"}

Letters ==
    { "a", "b", "c", "d", "e", "f", "g", "h", "i", "j", "k", "l", "m",
      "n", "o", "p", "q", "r", "s", "t", "u", "v", "w", "x", "y", "z",
      "A", "B", "C", "D", "E", "F", "G", "H", "I", "J", "K", "L", "M",
      "N", "O", "P", "Q", "R", "S", "T", "U", "V", "W", "X", "Y", "Z" }

\* uri.match(/^([a-zA-Z][a-zA-Z0-9_-]*):\/\/(.+)$/): the provider as a set, empty
\* for null.  Without the s flag "." matches no line terminator and without
\* the m flag "$" matches at the end of the input only, so (.+)$ takes the
\* rest of the input when no line terminator stands in it.
parseProviderURI(uri) ==
    LET k == IndexOf(uri, ":") IN
    IF /\ k >= 2 /\ Len(uri) >= k + 3
       /\ uri[k + 1] = "/" /\ uri[k + 2] = "/"
       /\ uri[1] \in Letters
       /\ \A j \in 2..(k - 1) : uri[j] \in Letters \cup Digits \cup {"_", "-"}
       /\ \A j \in (k + 3)..Len(uri) : uri[j] \notin {"\n", "\r"}
    THEN [provider |-> {Join(SubSeq(uri, 1, k - 1))}, path |-> SubSeq(uri, k + 3, Len(uri))]
    ELSE [provider |-> {}, path |-> uri]

\* a lookup that goes on to the other registered providers when the named one
\* is missing, throws or has nothing
ResolveSecretOutcomeWithFallback(insts, provs, dsk, uri, defaultProvider) ==
    LET parsed == parseProviderURI(uri)
        found == {n \in DOMAIN insts :
                    GetSecretOutcome(provs[insts[n]], dsk, parsed.path).result.kind = "value"}
    IN  IF found = {}
        THEN [consulted |-> Range(insts), target |-> {}, result |-> [kind |-> "null"]]
        ELSE LET n == CHOOSE x \in found : TRUE
             IN  [ consulted |-> Range(insts),
                   target |-> GetSecretOutcome(provs[insts[n]], dsk, parsed.path).target,
                   result |-> GetSecretOutcome(provs[insts[n]], dsk, parsed.path).result ]

\* resolveSecret: the providers whose getSecret it calls, and what it returns or throws
ResolveSecretOutcome(insts, provs, dsk, uri, defaultProvider) ==
    LET parsed == parseProviderURI(uri)
        name == IF parsed.provider = {} THEN defaultProvider
                ELSE CHOOSE n \in parsed.provider : TRUE
    IN  IF name \notin DOMAIN insts
        THEN [ consulted |-> {}, target |-> {},
               result |-> Thrown("Provider \"" \o name \o "\" not found") ]
        ELSE LET out == GetSecretOutcome(provs[insts[name]], dsk, parsed.path)
             IN  [consulted |-> {insts[name]}, target |-> out.target, result |-> out.result]

(***************************************************************************)
(* The provider configurations, the disk they start from and the inputs of *)
(* the provider operations.                                                *)
(***************************************************************************)
\* the secrets root of the provider "local" and of the provider "backup"
LocalDir == <<"/", "r", "/", "s">>

BackupDir == <<"/", "r", "/", "t">>

\* "local" and "backup" are two stores with their own keys; "nokey" has an
\* empty master key, "blocked" a secrets directory below a regular file, and
\* the type of "vault" has no factory
ProviderConfig(name) ==
    CASE name = "local"   -> [ name |-> name, type |-> "filesystem",
                               config |-> [path |-> LocalDir, masterKey |-> "k1"] ]
      [] name = "backup"  -> [ name |-> name, type |-> "filesystem",
                               config |-> [path |-> BackupDir, masterKey |-> "k2"] ]
      [] name = "nokey"   -> [ name |-> name, type |-> "filesystem",
                               config |-> [path |-> LocalDir, masterKey |-> ""] ]
      [] name = "blocked" -> [ name |-> name, type |-> "filesystem",
                               config |-> [path |-> LocalDir \o <<"/", "c", "/", "d">>,
                                           masterKey |-> "k1"] ]
      [] name = "vault"   -> [ name |-> name, type |-> "hashicorp",
                               config |-> [path |-> LocalDir, masterKey |-> "k1"] ]

\* both roots exist; "local" holds x and a file c that is no ciphertext,
\* "backup" holds a, which "local" does not
InitialDisk ==
    [ dirs |-> {<<"/">>, <<"/", "r">>, LocalDir, BackupDir},
      files |-> (LocalDir \o <<"/", "x">> :> encryptSecret("secret-x", "k1"))
                @@ (LocalDir \o <<"/", "c">> :> [key |-> "none", value |-> "garbage"])
                @@ (BackupDir \o <<"/", "a">> :> encryptSecret("secret-a", "k2")) ]

\* the secrets of the initial disk, as written by setSecret("x", ...) of
\* "local" and setSecret("a", ...) of "backup" before the first step
InitialStored ==
    [ byFile |-> (LocalDir \o <<"/", "x">> :> "secret-x")
                 @@ (BackupDir \o <<"/", "a">> :> "secret-a"),
      byPath |-> (<<"local", <<"x">>>> :> "secret-x") @@ (<<"backup", <<"a">>>> :> "secret-a") ]

\* secret paths: plain, nested, ".." at the start, in the middle and alone, absolute
SecretPaths ==
    { <<"a">>, <<"a", "/", "x">>, <<".", ".">>, <<".", ".", "/", "x">>,
      <<"a", "/", ".", ".", "/", ".", ".", "/", "x">>, <<"/", "a">> }

\* secret references: bare paths, and paths under the scheme of a registered
\* and of an unregistered provider
SecretUris ==
    LET scheme(name) == name \o <<":", "/", "/">>
        local == <<"l", "o", "c", "a", "l">>
        backup == <<"b", "a", "c", "k", "u", "p">>
        missing == <<"m", "i", "s", "s", "i", "n", "g">>
    IN  { <<"a">>, <<"x">>, scheme(local) \o <<"c">>, scheme(backup) \o <<"a">>,
          scheme(backup) \o <<"x">>, scheme(missing) \o <<"a">> }

(***************************************************************************)
(* State.                                                                  *)
(***************************************************************************)
VARIABLES
    now,        \* the clock: new Date(), Date.now()
    ticks,      \* how often the clock has advanced
    sessions,   \* SessionManager.sessions: id -> Session
    timers,     \* the armed setTimeout callbacks: [id, due]
    tokens,     \* how many tokens generateToken has produced
    calls,      \* the tool calls made so far, with their results
    audit,      \* the records handed to auditLogger.log, in order
    created,    \* history: id -> the session as createSession returned it
    revoked,    \* history: the ids for which revokeSession returned true
    providers,  \* the provider objects constructed so far
    instances,  \* the registry: provider name -> provider object (its index)
    registering,\* the providers createProvider has initialized and not yet registered
    disk,       \* the file system: [files: path -> encrypted content, dirs]
    last,       \* the latest provider or registry operation and its outcome
    stored,     \* history: what setSecret has written and deleteSecret not removed,
                \* by file (byFile) and by provider name and path as given (byPath)
    mcpClient,  \* the plugin's client: an index into clients, 0 for null
    isConnecting, \* the plugin's flag of a connection attempt in progress
    clients,    \* the Client objects the plugin has built, each with its subprocess
    ensureCalls,\* the calls of ensureConnected, by caller, and what they returned
    shutdown    \* how far the plugin's shutdown handler has run

brokerVars == <<now, ticks, sessions, timers, tokens, calls, audit, created, revoked>>

registryVars == <<providers, instances, registering, disk, last, stored>>

pluginVars == <<mcpClient, isConnecting, clients, ensureCalls, shutdown>>

vars == <<now, ticks, sessions, timers, tokens, calls, audit, created, revoked,
          providers, instances, registering, disk, last, stored,
          mcpClient, isConnecting, clients, ensureCalls, shutdown>>

PathX == <<"/", "x">>

\* /x?a=1
PathQuery == <<"/", "x", "?", "a", "=", "1">>

\* /x?timestamp=1&a=1
PathStamped ==
    <<"/", "x", "?", "t", "i", "m", "e", "s", "t", "a", "m", "p", "=", "1", "&", "a", "=", "1">>

CapabilityNames == {capabilities[i].name : i \in DOMAIN capabilities}

\* the arguments of the execute calls of the model
ExecuteArgs ==
    { [capability |-> c, method |-> "GET", path |-> PathX, reason |-> "because"]
        : c \in {"vault_read", "mexc_trade", "bybit_trade", "orphan", "nope"} }
    \cup { [capability |-> c, method |-> "POST", path |-> PathX, body |-> "{}", reason |-> "because"]
        : c \in {"stripe_readonly", "okx_trade"} }
    \cup { [capability |-> "bybit_trade", method |-> "GET", path |-> PathX],
           [capability |-> "okx_trade", method |-> "POST", path |-> PathX, body |-> "", reason |-> ""],
           [capability |-> "stripe_readonly", method |-> "GET", path |-> PathX,
            headers |-> ("Authorization" :> "agent")] }

\* the execute calls made of the services whose descriptor is malformed, and of one
\* whose descriptor is not
OnExecuteArgs ==
    { [capability |-> c, method |-> "GET", path |-> PathX]
        : c \in {"mexc_trade", "plain_read", "halfmexc_trade", "halfokx_trade", "oauth_read"} }

\* the execute calls made of the signed services: with and without a query
\* string, with and without a body, in either case of the method name
SigningArgs ==
    { [capability |-> "mexc_trade", method |-> "GET", path |-> p]
        : p \in {PathX, PathQuery, PathStamped} }
    \cup { [capability |-> "bybit_trade", method |-> m, path |-> PathQuery, reason |-> "because"]
            : m \in {"GET", "DELETE"} }
    \cup { [capability |-> "bybit_trade", method |-> "POST", path |-> PathQuery,
             body |-> "{}", reason |-> "because"],
           [capability |-> "bybit_trade", method |-> "put", path |-> PathQuery,
            body |-> "", reason |-> "because"] }
    \cup { [capability |-> "okx_trade", method |-> "GET", path |-> PathQuery, reason |-> "because"],
           [capability |-> "okx_trade", method |-> "POST", path |-> PathX,
            body |-> "{}", reason |-> "because"] }

\* the arguments of the get_http_access calls of the model
HttpAccessArgs ==
    { [capability |-> "stripe_readonly"],
      [capability |-> "bybit_trade", reason |-> "because"],
      [capability |-> "bybit_trade"],
      [capability |-> "okx_trade", reason |-> ""] }

\* the calls that meet each kind of configuration: a ttl of zero, a ttl that
\* parseTTL rejects, a service that is not defined, and a sound one
ConfigArgs ==
    { [capability |-> c, method |-> "GET", path |-> PathX]
        : c \in {"instant", "weekly", "orphan", "plain_read"} }

\* what the upstream API may answer
UpstreamResponses ==
    { [statusCode |-> 200, headers |-> EmptyObj, body |-> "ok"],
      [statusCode |-> 404, headers |-> EmptyObj, body |-> "{\"error\":\"no such customer\"}"],
      [statusCode |-> 500, headers |-> EmptyObj, body |-> "oops"] }

\* how the upstream call may fail
UpstreamFailures == {"ECONNRESET"}

\* how auditLogger.log may fail once the upstream call has completed
AuditLogFailures == {"ENOSPC: no space left on device"}

\* every id a caller may present: the ids issued so far and one never issued
KnownIds == DOMAIN created \cup {"jnee_sess_none"}

Init ==
    /\ now = Instant(1700000000, 0)
    /\ ticks = 0
    /\ sessions = EmptyObj
    /\ timers = {}
    /\ tokens = 0
    /\ calls = <<>>
    /\ audit = <<>>
    /\ created = EmptyObj
    /\ revoked = {}
    /\ providers = <<>>
    /\ instances = EmptyObj
    /\ registering = {}
    /\ disk = InitialDisk
    /\ last = [op |-> "none"]
    /\ stored = InitialStored
    /\ mcpClient = 0
    /\ isConnecting = FALSE
    /\ clients = <<>>
    /\ ensureCalls = [c \in 1..MaxCalls |->
                         [state |-> "idle", made |-> 0, result |-> 0, status |-> "none"]]
    /\ shutdown = "none"

(***************************************************************************)
(* createSession, as part of the tool call that makes it.                  *)
(***************************************************************************)
\* a createSession that arms no timer
CreateSessionWithoutTimer(session, ttlSeconds) ==
    /\ sessions' = Assign(sessions, session.id :> session)
    /\ timers' = timers
    /\ tokens' = tokens + 1
    /\ created' = Assign(created, session.id :> session)

CreateSession(session, ttlSeconds) ==
    /\ sessions' = Assign(sessions, session.id :> session)
    /\ timers' = timers \cup {[id |-> session.id, due |-> TimerDue(now, ttlSeconds)]}
    /\ tokens' = tokens + 1
    /\ created' = Assign(created, session.id :> session)

\* a call that ended in the catch block
Failed(tool, args, message, session) ==
    [ tool |-> tool, args |-> args, state |-> "done", isError |-> TRUE,
      text |-> ErrorText(message), session |-> session, at |-> now,
      request |-> {}, outbound |-> {}, upstream |-> {} ]

(***************************************************************************)
(* execute: everything up to `await makeAPIRequest(...)`.                  *)
(***************************************************************************)
Execute(args) ==
    /\ Len(calls) < MaxCalls
    /\ UNCHANGED <<now, ticks, audit, revoked>>
    /\ UNCHANGED <<registryVars, pluginVars>>
    /\ IF EarlyError(capabilities, args) # {}
       THEN /\ calls' = Append(calls,
                   Failed("execute", args, CHOOSE m \in EarlyError(capabilities, args) : TRUE, {}))
            /\ UNCHANGED <<sessions, timers, tokens, created>>
       ELSE LET cap == capabilities[FindCapability(capabilities, args.capability)]
                ttlSeconds == parseTTL(cap.ttl)
                session == NewSession(generateToken("jnee_sess", tokens + 1), cap.name,
                                      cap.service, ttlSeconds, SessionOptions(args), now)
                proxyReq == ProxyRequest(cap, args)
            IN  /\ CreateSession(session, ttlSeconds)
                /\ IF ServiceError(services, proxyReq) # {}
                   THEN calls' = Append(calls,
                           Failed("execute", args,
                                  CHOOSE m \in ServiceError(services, proxyReq) : TRUE,
                                  {session.id}))
                   ELSE calls' = Append(calls,
                           [ tool |-> "execute", args |-> args, state |-> "pending",
                             isError |-> FALSE, text |-> EmptyObj, session |-> {session.id},
                             at |-> now, request |-> {proxyReq},
                             outbound |-> {OutboundRequest(services, proxyReq, now)},
                             upstream |-> {} ])

Pending == {i \in DOMAIN calls : calls[i].state = "pending"}

\* the upstream API answers: the audit record is written and the text returned
UpstreamRespond(i, res) ==
    /\ i \in Pending
    /\ LET request == CHOOSE r \in calls[i].request : TRUE
           outbound == CHOOSE o \in calls[i].outbound : TRUE
           response == ProxyResponse(res)
       IN  /\ audit' = Append(audit,
                  Assign(AuditRecord(RequestAfterInjection(request, outbound.options.headers),
                                     response),
                         [call |-> i]))
           /\ calls' = [calls EXCEPT ![i] =
                  [@ EXCEPT !.state = "done", !.text = ExecuteText(response),
                            !.upstream = {[kind |-> "response", res |-> res]}]]
    /\ UNCHANGED <<now, ticks, sessions, timers, tokens, created, revoked>>
    /\ UNCHANGED <<registryVars, pluginVars>>

\* the upstream call fails: onExecute rejects and the handler's catch block answers
UpstreamFail(i, failure) ==
    /\ i \in Pending
    /\ LET outbound == CHOOSE o \in calls[i].outbound : TRUE
       IN  calls' = [calls EXCEPT ![i] =
                  [@ EXCEPT !.state = "done", !.isError = TRUE,
                            !.text = ErrorText(RequestError(outbound, failure).message),
                            !.upstream = {[kind |-> "failure", failure |-> failure]}]]
    /\ UNCHANGED <<now, ticks, sessions, timers, tokens, audit, created, revoked>>
    /\ UNCHANGED <<registryVars, pluginVars>>

\* the upstream API answers and auditLogger.log throws: nothing around the call
\* catches, so onExecute rejects with that error and the handler's catch block answers
AuditLogFail(i, res, failure) ==
    /\ i \in Pending
    /\ calls' = [calls EXCEPT ![i] =
           [@ EXCEPT !.state = "done", !.isError = TRUE,
                     !.text = ErrorText(failure),
                     !.upstream = {[kind |-> "response", res |-> res, log |-> failure]}]]
    /\ UNCHANGED <<now, ticks, sessions, timers, tokens, audit, created, revoked>>
    /\ UNCHANGED <<registryVars, pluginVars>>

(***************************************************************************)
(* get_http_access and list_services.                                      *)
(***************************************************************************)
GetHttpAccess(args) ==
    /\ Len(calls) < MaxCalls
    /\ UNCHANGED <<now, ticks, audit, revoked>>
    /\ UNCHANGED <<registryVars, pluginVars>>
    /\ IF EarlyError(capabilities, args) # {}
       THEN /\ calls' = Append(calls,
                   Failed("get_http_access", args,
                          CHOOSE m \in EarlyError(capabilities, args) : TRUE, {}))
            /\ UNCHANGED <<sessions, timers, tokens, created>>
       ELSE LET cap == capabilities[FindCapability(capabilities, args.capability)]
                ttlSeconds == parseTTL(cap.ttl)
                session == NewSession(generateToken("jnee_sess", tokens + 1), cap.name,
                                      cap.service, ttlSeconds, SessionOptions(args), now)
            IN  /\ CreateSession(session, ttlSeconds)
                /\ calls' = Append(calls,
                       [ tool |-> "get_http_access", args |-> args, state |-> "done",
                         isError |-> FALSE, text |-> HttpAccessText(cap, session),
                         session |-> {session.id}, at |-> now,
                         request |-> {}, outbound |-> {}, upstream |-> {} ])

\* a call of a tool the switch has no case for: the default branch throws
UnknownTool(name) ==
    /\ Len(calls) < MaxCalls
    /\ calls' = Append(calls, Failed(name, EmptyObj, "Unknown tool: " \o name, {}))
    /\ UNCHANGED <<now, ticks, sessions, timers, tokens, audit, created, revoked>>
    /\ UNCHANGED <<registryVars, pluginVars>>

ListServices ==
    /\ Len(calls) < MaxCalls
    /\ calls' = Append(calls,
           [ tool |-> "list_services", args |-> EmptyObj, state |-> "done",
             isError |-> FALSE, text |-> ListServicesText(capabilities),
             session |-> {}, at |-> now, request |-> {}, outbound |-> {}, upstream |-> {} ])
    /\ UNCHANGED <<now, ticks, sessions, timers, tokens, audit, created, revoked>>
    /\ UNCHANGED <<registryVars, pluginVars>>

(***************************************************************************)
(* SessionManager operations called by the rest of the broker, the         *)
(* cleanup timers and the clock.                                           *)
(***************************************************************************)
GetSession(sessionId) ==
    /\ sessions' = GetSessionTable(sessions, sessionId, now)
    /\ UNCHANGED <<now, ticks, timers, tokens, calls, audit, created, revoked>>
    /\ UNCHANGED <<registryVars, pluginVars>>

RevokeSession(sessionId) ==
    /\ sessions' = RevokeSessionTable(sessions, sessionId)
    /\ revoked' = IF RevokeSessionResult(sessions, sessionId)
                  THEN revoked \cup {sessionId} ELSE revoked
    /\ UNCHANGED <<now, ticks, timers, tokens, calls, audit, created>>
    /\ UNCHANGED <<registryVars, pluginVars>>

ListSessions ==
    /\ sessions' = ListSessionsTable(sessions, now)
    /\ UNCHANGED <<now, ticks, timers, tokens, calls, audit, created, revoked>>
    /\ UNCHANGED <<registryVars, pluginVars>>

Cleanup ==
    /\ sessions' = CleanupTable(sessions, now)
    /\ UNCHANGED <<now, ticks, timers, tokens, calls, audit, created, revoked>>
    /\ UNCHANGED <<registryVars, pluginVars>>

\* the callback of setTimeout: this.sessions.delete(id), no earlier than it is due
TimerFire(timer) ==
    /\ timer \in timers
    /\ TimeLE(timer.due, now)
    /\ timers' = timers \ {timer}
    /\ sessions' = Without(sessions, {timer.id})
    /\ UNCHANGED <<now, ticks, tokens, calls, audit, created, revoked>>
    /\ UNCHANGED <<registryVars, pluginVars>>

\* the instants at which something changes: the next millisecond, an expiry, a timer
NextInstants ==
    {AddMs(now, 1)}
    \cup {created[id].expiresAt : id \in DOMAIN created}
    \cup {AddMs(created[id].expiresAt, 1) : id \in DOMAIN created}
    \cup {t.due : t \in timers}

Tick(t) ==
    /\ ticks < MaxTicks
    /\ TimeLT(now, t)
    /\ now' = t
    /\ ticks' = ticks + 1
    /\ UNCHANGED <<sessions, timers, tokens, calls, audit, created, revoked>>
    /\ UNCHANGED <<registryVars, pluginVars>>

Next ==
    \/ \E args \in ExecuteArgs : Execute(args)
    \/ \E i \in DOMAIN calls, res \in UpstreamResponses : UpstreamRespond(i, res)
    \/ \E i \in DOMAIN calls, f \in UpstreamFailures : UpstreamFail(i, f)
    \/ \E args \in HttpAccessArgs : GetHttpAccess(args)
    \/ ListServices
    \/ \E id \in KnownIds : GetSession(id)
    \/ \E id \in KnownIds : RevokeSession(id)
    \/ ListSessions
    \/ Cleanup
    \/ \E timer \in timers : TimerFire(timer)
    \/ \E t \in NextInstants : Tick(t)

\* the whole broker; the properties are checked under the two projections below,
\* which keep the tool calls and the session clock apart
Spec == Init /\ [][Next]_vars

\* the tool calls alone
DispatchNext ==
    \/ \E args \in ExecuteArgs : Execute(args)
    \/ \E i \in DOMAIN calls, res \in UpstreamResponses : UpstreamRespond(i, res)
    \/ \E i \in DOMAIN calls, f \in UpstreamFailures : UpstreamFail(i, f)
    \/ \E args \in HttpAccessArgs : GetHttpAccess(args)
    \/ ListServices

DispatchSpec == Init /\ [][DispatchNext]_vars

\* the life of the sessions that get_http_access creates
SessionNext ==
    \/ \E args \in HttpAccessArgs : GetHttpAccess(args)
    \/ \E id \in KnownIds : GetSession(id)
    \/ \E id \in KnownIds : RevokeSession(id)
    \/ ListSessions
    \/ Cleanup
    \/ \E timer \in timers : TimerFire(timer)
    \/ \E t \in NextInstants : Tick(t)

SessionSpec == Init /\ [][SessionNext]_vars

\* the sessions left to their timers: the clock moves from one pending timer
\* to the next, every due callback runs, and lookups, sweeps and revocations
\* may come in between or never
ReapNext ==
    \/ \E args \in { [capability |-> "stripe_readonly"], [capability |-> "instant"],
                     [capability |-> "bybit_trade", reason |-> "because"] } :
          GetHttpAccess(args)
    \/ \E id \in KnownIds : GetSession(id)
    \/ \E id \in KnownIds : RevokeSession(id)
    \/ ListSessions
    \/ Cleanup
    \/ \E timer \in timers : TimerFire(timer)
    \/ \E timer \in timers : Tick(timer.due)

ReapSpec ==
    /\ Init
    /\ [][ReapNext]_vars
    /\ WF_vars(\E timer \in timers : TimerFire(timer))
    /\ WF_vars(\E timer \in timers : Tick(timer.due))

\* onExecute with every outcome of the upstream call and of the audit logger
OnExecuteNext ==
    \/ \E args \in OnExecuteArgs
                   \cup { [capability |-> c, method |-> "GET", path |-> PathX]
                            : c \in {"nonesuch", "bybit_trade", "weekly", "orphan"} }
                   \cup { [capability |-> "stripe_readonly", method |-> "GET", path |-> PathX,
                           headers |-> h]
                            : h \in { "authorization" :> "agent",
                                      ("Authorization" :> "agent") @@ ("X-Trace" :> "1") } } :
          Execute(args)
    \/ UnknownTool("revoke_session")
    \/ \E i \in DOMAIN calls, res \in UpstreamResponses : UpstreamRespond(i, res)
    \/ \E i \in DOMAIN calls, f \in UpstreamFailures : UpstreamFail(i, f)
    \/ \E i \in DOMAIN calls, res \in UpstreamResponses, f \in AuditLogFailures :
           AuditLogFail(i, res, f)

OnExecuteSpec == Init /\ [][OnExecuteNext]_vars

\* the requests onExecute signs and hands to makeAPIRequest, and the clock
\* behind their timestamps
SigningNext ==
    \/ \E args \in SigningArgs : Execute(args)
    \/ \E t \in {AddMs(now, 1)} : Tick(t)

SigningSpec == Init /\ [][SigningNext]_vars

(***************************************************************************)
(* FilesystemProvider and the registry: one action per method.  Each       *)
(* records in `last` what it was called with, the provider's flag at the   *)
(* call, the files it went to and what it returned or threw.               *)
(***************************************************************************)
\* new FilesystemProvider(config)
Construct(config) ==
    /\ Len(providers) < MaxProviders
    /\ IF ~TruthyStr(config.config, "masterKey")
       THEN /\ providers' = providers
            /\ last' = [ op |-> "construct", config |-> config.name,
                         result |-> Thrown("FilesystemProvider \"" \o config.name
                                           \o "\": masterKey is required") ]
       ELSE /\ providers' = Append(providers, NewProvider(config))
            /\ last' = [ op |-> "construct", config |-> config.name,
                         result |-> [kind |-> "ok"] ]
    /\ UNCHANGED <<instances, registering, disk>>
    /\ UNCHANGED <<brokerVars, pluginVars>>
    /\ UNCHANGED stored

\* provider.initialize(), called by whoever holds the provider
Initialize(p) ==
    /\ p \in DOMAIN providers
    /\ p \notin registering
    /\ LET out == InitializeOutcome(providers[p], disk) IN
       /\ providers' = [providers EXCEPT ![p].initialized = IF out.ok THEN TRUE ELSE @]
       /\ disk' = out.disk
       /\ last' = [ op |-> "initialize", provider |-> p,
                    result |-> IF out.ok THEN [kind |-> "ok"] ELSE Thrown("ENOTDIR") ]
    /\ UNCHANGED <<instances, registering>>
    /\ UNCHANGED <<brokerVars, pluginVars>>
    /\ UNCHANGED stored

\* provider.dispose()
Dispose(p) ==
    /\ p \in DOMAIN providers
    /\ p \notin registering
    /\ providers' = [providers EXCEPT ![p].initialized = FALSE]
    /\ last' = [op |-> "dispose", provider |-> p, result |-> [kind |-> "ok"]]
    /\ UNCHANGED <<instances, registering, disk>>
    /\ UNCHANGED <<brokerVars, pluginVars>>
    /\ UNCHANGED stored

\* provider.getSecret(path)
GetSecret(p, path) ==
    /\ p \in DOMAIN providers
    /\ p \notin registering
    /\ LET out == GetSecretOutcome(providers[p], disk, path) IN
       last' = [ op |-> "getSecret", provider |-> p, path |-> path,
                 initialized |-> providers[p].initialized, target |-> out.target,
                 result |-> out.result, wrote |-> FALSE ]
    /\ UNCHANGED <<providers, instances, registering, disk>>
    /\ UNCHANGED <<brokerVars, pluginVars>>
    /\ UNCHANGED stored

\* provider.setSecret(path, value)
SetSecret(p, path, value) ==
    /\ p \in DOMAIN providers
    /\ p \notin registering
    /\ LET out == SetSecretOutcome(providers[p], disk, path, value) IN
       /\ disk' = out.disk
       /\ last' = [ op |-> "setSecret", provider |-> p, path |-> path,
                    initialized |-> providers[p].initialized, target |-> out.target,
                    result |-> out.result, wrote |-> out.disk # disk ]
       /\ stored' = IF out.result.kind # "ok" THEN stored
                    ELSE [ byFile |-> Assign(stored.byFile,
                                             [f \in out.target |-> value]),
                           byPath |-> Assign(stored.byPath,
                                             <<providers[p].name, path>> :> value) ]
    /\ UNCHANGED <<providers, instances, registering>>
    /\ UNCHANGED <<brokerVars, pluginVars>>

\* provider.deleteSecret(path)
DeleteSecret(p, path) ==
    /\ p \in DOMAIN providers
    /\ p \notin registering
    /\ LET out == DeleteSecretOutcome(providers[p], disk, path) IN
       /\ disk' = out.disk
       /\ last' = [ op |-> "deleteSecret", provider |-> p, path |-> path,
                    initialized |-> providers[p].initialized, target |-> out.target,
                    result |-> out.result, wrote |-> out.disk # disk ]
       /\ stored' = IF out.result.kind # "ok" THEN stored
                    ELSE [ byFile |-> Without(stored.byFile, out.target),
                           byPath |-> Without(stored.byPath, {<<providers[p].name, path>>}) ]
    /\ UNCHANGED <<providers, instances, registering>>
    /\ UNCHANGED <<brokerVars, pluginVars>>

\* provider.listSecrets(prefix)
ListSecrets(p, prefix) ==
    /\ p \in DOMAIN providers
    /\ p \notin registering
    /\ LET out == ListSecretsOutcome(providers[p], disk, prefix) IN
       last' = [ op |-> "listSecrets", provider |-> p, path |-> prefix,
                 initialized |-> providers[p].initialized, target |-> out.target,
                 listed |-> out.listed, result |-> out.result, wrote |-> FALSE ]
    /\ UNCHANGED <<providers, instances, registering, disk>>
    /\ UNCHANGED <<brokerVars, pluginVars>>
    /\ UNCHANGED stored

\* createProvider(config) up to the end of `await provider.initialize()`
CreateProvider(config) ==
    /\ Len(providers) < MaxProviders
    /\ IF config.type \notin factories
       THEN /\ last' = [ op |-> "createProvider", config |-> config.name,
                         result |-> Thrown("Unknown provider type: \"" \o config.type \o "\"") ]
            /\ UNCHANGED <<providers, registering, disk>>
       ELSE IF ~TruthyStr(config.config, "masterKey")
       THEN /\ last' = [ op |-> "createProvider", config |-> config.name,
                         result |-> Thrown("FilesystemProvider \"" \o config.name
                                           \o "\": masterKey is required") ]
            /\ UNCHANGED <<providers, registering, disk>>
       ELSE LET out == InitializeOutcome(NewProvider(config), disk) IN
            IF ~out.ok
            THEN /\ last' = [ op |-> "createProvider", config |-> config.name,
                              result |-> Thrown("ENOTDIR") ]
                 /\ UNCHANGED <<providers, registering, disk>>
            ELSE /\ providers' = Append(providers,
                                        [NewProvider(config) EXCEPT !.initialized = TRUE])
                 /\ registering' = registering \cup {Len(providers) + 1}
                 /\ disk' = out.disk
                 /\ last' = [ op |-> "createProvider", config |-> config.name,
                              result |-> [kind |-> "pending"] ]
    /\ UNCHANGED instances
    /\ UNCHANGED <<brokerVars, pluginVars>>
    /\ UNCHANGED stored

\* createProvider after the await: instances.set(config.name, provider)
Register(p) ==
    /\ p \in registering
    /\ instances' = Assign(instances, providers[p].name :> p)
    /\ registering' = registering \ {p}
    /\ last' = [ op |-> "register", provider |-> p,
                 initialized |-> providers[p].initialized, result |-> [kind |-> "ok"] ]
    /\ UNCHANGED <<providers, disk>>
    /\ UNCHANGED <<brokerVars, pluginVars>>
    /\ UNCHANGED stored

\* parseProviderURI(uri)
ParseProviderURI(uri) ==
    /\ last' = [op |-> "parseProviderURI", uri |-> uri, result |-> parseProviderURI(uri)]
    /\ UNCHANGED <<providers, instances, registering, disk>>
    /\ UNCHANGED <<brokerVars, pluginVars>>
    /\ UNCHANGED stored

\* resolveSecret(uri, defaultProvider): given is empty where the call leaves
\* the second argument out, and the parameter then takes its default 'local'
ResolveSecret(uri, given) ==
    /\ LET defaultProvider == IF given = {} THEN "local" ELSE CHOOSE name \in given : TRUE
           out == ResolveSecretOutcome(instances, providers, disk, uri, defaultProvider)
       IN
       last' = [ op |-> "resolveSecret", uri |-> uri, given |-> given,
                 defaultProvider |-> defaultProvider,
                 consulted |-> out.consulted, target |-> out.target, result |-> out.result ]
    /\ UNCHANGED <<providers, instances, registering, disk>>
    /\ UNCHANGED <<brokerVars, pluginVars>>
    /\ UNCHANGED stored

\* disposeAll(): every registered provider is disposed and the registry is emptied
DisposeAll ==
    /\ providers' = [ p \in DOMAIN providers |->
                        IF p \in Range(instances)
                        THEN [providers[p] EXCEPT !.initialized = FALSE]
                        ELSE providers[p] ]
    /\ instances' = EmptyObj
    /\ last' = [op |-> "disposeAll", result |-> [kind |-> "ok"]]
    /\ UNCHANGED <<registering, disk>>
    /\ UNCHANGED <<brokerVars, pluginVars>>
    /\ UNCHANGED stored

\* one store and every secret path
ProviderNext ==
    \/ Construct(ProviderConfig("local"))
    \/ \E p \in DOMAIN providers : Initialize(p)
    \/ \E p \in DOMAIN providers, path \in SecretPaths : GetSecret(p, path)
    \/ \E p \in DOMAIN providers, path \in SecretPaths : SetSecret(p, path, "secret-new")
    \/ \E p \in DOMAIN providers, path \in SecretPaths : DeleteSecret(p, path)

ProviderSpec == Init /\ [][ProviderNext]_vars

\* one store, and writes, reads and deletions under paths of which two name
\* the same file and one lies below it
StoreNext ==
    \/ Construct(ProviderConfig("local"))
    \/ \E p \in DOMAIN providers : Initialize(p)
    \/ \E p \in DOMAIN providers, path \in {<<"a">>, <<"/", "a">>, <<"a", "/", "x">>} :
          \/ GetSecret(p, path)
          \/ SetSecret(p, path, "secret-new")
          \/ DeleteSecret(p, path)

StoreSpec == Init /\ [][StoreNext]_vars

\* the life of a provider, built by hand or by the registry, and the
\* operations on one secret at each point of it
LifecycleNext ==
    \/ \E name \in {"local", "nokey"} : Construct(ProviderConfig(name))
    \/ \E name \in {"local", "blocked"} : CreateProvider(ProviderConfig(name))
    \/ \E p \in DOMAIN providers : Register(p)
    \/ \E p \in DOMAIN providers : Initialize(p)
    \/ \E p \in DOMAIN providers : Dispose(p)
    \/ \E p \in DOMAIN providers : GetSecret(p, <<"a">>)
    \/ \E p \in DOMAIN providers : SetSecret(p, <<"a">>, "secret-new")
    \/ \E p \in DOMAIN providers : DeleteSecret(p, <<"a">>)
    \/ \E p \in DOMAIN providers,
          prefix \in {<<>>, <<"a">>, <<".", ".">>, <<"a", "/", ".", ".", "/", ".", ".", "/", "t">>} :
             ListSecrets(p, prefix)

LifecycleSpec == Init /\ [][LifecycleNext]_vars

\* two stores behind the registry, and the lookups of secret references
RegistryNext ==
    \/ \E name \in {"local", "backup", "vault"} : CreateProvider(ProviderConfig(name))
    \/ \E p \in DOMAIN providers : Register(p)
    \/ \E p \in DOMAIN providers : Dispose(p)
    \/ DisposeAll
    \/ \E uri \in SecretUris : ResolveSecret(uri, {})

RegistrySpec == Init /\ [][RegistryNext]_vars

\* secret references of every shape, parsed and looked up with and without a
\* default provider of the caller's
UriNext ==
    LET scheme(name) == name \o <<":", "/", "/">>
        local == <<"l", "o", "c", "a", "l">>
        backup == <<"b", "a", "c", "k", "u", "p">>
        uris == { <<"x">>, <<"a">>, scheme(local) \o <<"x">>, scheme(backup) \o <<"a">>,
                  scheme(local) \o scheme(backup) \o <<"a">>,
                  scheme(<<"b", "-", "2", "_", "k">>) \o <<"a">>,
                  scheme(<<"2", "b">>) \o <<"a">>, scheme(<<"b", ".", "k">>) \o <<"a">>,
                  scheme(<<>>) \o <<"x">>, scheme(local), local \o <<":", "/", "x">>,
                  scheme(backup) \o <<"a", "\n">> }
    IN  \/ \E name \in {"local", "backup"} : CreateProvider(ProviderConfig(name))
        \/ \E p \in DOMAIN providers : Register(p)
        \/ \E uri \in uris : ParseProviderURI(uri)
        \/ \E uri \in uris, given \in {{}, {"backup"}} : ResolveSecret(uri, given)

UriSpec == Init /\ [][UriNext]_vars

(***************************************************************************)
(* The OpenClaw plugin: one client to the broker, connected on demand and  *)
(* closed at shutdown.  A client is [connect, closed]; connect is the      *)
(* state of its connect() call, closed whether close() was called on it.   *)
(***************************************************************************)
\* what a call of ensureConnected hands back: the client and how far its
\* connect() had come at that moment
Returned(call, client, all) ==
    [call EXCEPT !.state = "returned", !.result = client,
                 !.status = IF client = 0 THEN "none" ELSE all[client].connect]

\* the start of a connection attempt: the flag, a new client in mcpClient,
\* and its connect() under way
StartAttempt(c) ==
    /\ isConnecting' = TRUE
    /\ clients' = Append(clients, [connect |-> "pending", closed |-> FALSE])
    /\ mcpClient' = Len(clients) + 1
    /\ ensureCalls' = [ensureCalls EXCEPT ![c] =
                         [state |-> "connecting", made |-> Len(clients) + 1,
                          result |-> 0, status |-> "none"]]
    /\ UNCHANGED shutdown

\* an ensureConnected that starts an attempt whenever there is no client
EnsureConnectedWithoutFlag(c) ==
    /\ ensureCalls[c].state \in {"idle", "returned", "thrown"}
    /\ IF mcpClient # 0
       THEN /\ ensureCalls' = [ensureCalls EXCEPT
                                 ![c] = Returned([@ EXCEPT !.made = 0], mcpClient, clients)]
            /\ UNCHANGED <<mcpClient, isConnecting, clients, shutdown>>
       ELSE StartAttempt(c)
    /\ UNCHANGED <<brokerVars, registryVars>>

\* ensureConnected up to its next await, from its entry or from a turn of
\* its waiting loop that finds the flag down
EnsureConnected(c) ==
    /\ ensureCalls[c].state \in {"idle", "returned", "thrown", "waiting"}
    /\ ensureCalls[c].state = "waiting" => ~isConnecting
    /\ IF ensureCalls[c].state # "waiting" /\ mcpClient # 0
       THEN /\ ensureCalls' = [ensureCalls EXCEPT
                                 ![c] = Returned([@ EXCEPT !.made = 0], mcpClient, clients)]
            /\ UNCHANGED <<mcpClient, isConnecting, clients, shutdown>>
       ELSE IF isConnecting
       THEN /\ ensureCalls' = [ensureCalls EXCEPT ![c].state = "waiting"]
            /\ UNCHANGED <<mcpClient, isConnecting, clients, shutdown>>
       ELSE IF ensureCalls[c].state = "waiting" /\ mcpClient # 0
       THEN /\ ensureCalls' = [ensureCalls EXCEPT
                                 ![c] = Returned([@ EXCEPT !.made = 0], mcpClient, clients)]
            /\ UNCHANGED <<mcpClient, isConnecting, clients, shutdown>>
       ELSE StartAttempt(c)
    /\ UNCHANGED <<brokerVars, registryVars>>

\* ensureConnected after its await of connect(): return mcpClient, or the
\* catch that throws again; the finally in both
ConnectSettles(c, outcome) ==
    /\ ensureCalls[c].state = "connecting"
    /\ clients' = [clients EXCEPT ![ensureCalls[c].made].connect = outcome]
    /\ ensureCalls' = [ensureCalls EXCEPT ![c] =
                         IF outcome = "connected"
                         THEN Returned(@, mcpClient, clients')
                         ELSE [@ EXCEPT !.state = "thrown"]]
    /\ isConnecting' = FALSE
    /\ UNCHANGED <<mcpClient, shutdown>>
    /\ UNCHANGED <<brokerVars, registryVars>>

\* the shutdown handler up to its await of close(); the host emits shutdown
\* once
Shutdown ==
    /\ shutdown = "none"
    /\ IF mcpClient # 0
       THEN /\ clients' = [clients EXCEPT ![mcpClient].closed = TRUE]
            /\ shutdown' = "closing"
       ELSE /\ shutdown' = "done"
            /\ UNCHANGED clients
    /\ UNCHANGED <<mcpClient, isConnecting, ensureCalls>>
    /\ UNCHANGED <<brokerVars, registryVars>>

\* the shutdown handler after its await of close()
CloseSettles(closed) ==
    /\ shutdown = "closing"
    /\ IF closed
       THEN /\ mcpClient' = 0
            /\ shutdown' = "done"
       ELSE /\ shutdown' = "failed"
            /\ UNCHANGED mcpClient
    /\ UNCHANGED <<isConnecting, clients, ensureCalls>>
    /\ UNCHANGED <<brokerVars, registryVars>>

\* tool calls of the plugin, each asking for the client, a broker that
\* accepts or refuses the connection, and the shutdown of the host
PluginNext ==
    \/ \E c \in DOMAIN ensureCalls : EnsureConnected(c)
    \/ \E c \in DOMAIN ensureCalls, outcome \in {"connected", "failed"} :
           ConnectSettles(c, outcome)
    \/ Shutdown
    \/ \E closed \in BOOLEAN : CloseSettles(closed)

PluginSpec == Init /\ [][PluginNext]_vars

\* the tool calls and the lookups of secret references under each kind of
\* configuration
ConfigNext ==
    \/ \E args \in ConfigArgs : Execute(args)
    \/ \E args \in ConfigArgs : GetHttpAccess(args)
    \/ CreateProvider(ProviderConfig("local"))
    \/ \E p \in DOMAIN providers : Register(p)
    \/ \E uri \in SecretUris : ResolveSecret(uri, {})

ConfigSpec == Init /\ [][ConfigNext]_vars

\* execute calls, an upstream that answers, fails or stays silent, and the
\* passing of time; what the broker schedules itself (its timers) runs
TimeoutNext ==
    \/ \E args \in {a \in OnExecuteArgs : a.capability = "plain_read"} : Execute(args)
    \/ \E i \in DOMAIN calls, res \in UpstreamResponses : UpstreamRespond(i, res)
    \/ \E i \in DOMAIN calls, f \in UpstreamFailures : UpstreamFail(i, f)
    \/ \E timer \in timers : TimerFire(timer)
    \/ \E t \in NextInstants : Tick(t)

TimeoutSpec ==
    /\ Init
    /\ [][TimeoutNext]_vars
    /\ WF_vars(\E timer \in timers : TimerFire(timer))
    /\ WF_vars(\E t \in NextInstants : Tick(t))

\* a broker whose session table stays taken while a call waits for its upstream
HoldersWhilePending(cs) == {i \in DOMAIN cs : cs[i].state = "pending"}

\* the calls that keep the session table to themselves: every method of
\* SessionManager runs to its end without an await and takes no lock, and a
\* handler is in none of them while it awaits onExecute
Holders(cs) == {}

\* tool calls and session operations beside execute calls that wait for
\* their upstream response
ConcurrencyNext ==
    \/ \E i \in DOMAIN calls, res \in UpstreamResponses : UpstreamRespond(i, res)
    \/ /\ Holders(calls) = {}
       /\ \/ \E args \in {a \in OnExecuteArgs : a.capability = "plain_read"} : Execute(args)
          \/ \E args \in {a \in HttpAccessArgs : a.capability = "stripe_readonly"} :
                GetHttpAccess(args)
          \/ ListServices
          \/ \E id \in KnownIds : GetSession(id)
          \/ \E id \in KnownIds : RevokeSession(id)
          \/ ListSessions

ConcurrencySpec == Init /\ [][ConcurrencyNext]_vars

(***************************************************************************)
(* The policy the specification asks of execute (section 4.3): a rule      *)
(* matches on method and path, the first matching rule decides, and no     *)
(* match denies.  The execute handler holds no such check; this is the    *)
(* verdict the properties C2 and C3 are stated with.                       *)
(***************************************************************************)
MethodMatches(pattern, method) == pattern = "*" \/ ToUpperCase(pattern) = ToUpperCase(method)

\* a trailing * matches any remaining suffix
PathMatches(pattern, path) ==
    IF Len(pattern) > 0 /\ pattern[Len(pattern)] = "*"
    THEN /\ Len(path) >= Len(pattern) - 1
         /\ SubSeq(path, 1, Len(pattern) - 1) = SubSeq(pattern, 1, Len(pattern) - 1)
    ELSE pattern = path

RuleMatches(rule, method, path) ==
    MethodMatches(rule.method, method) /\ PathMatches(rule.path, path)

PolicyVerdict(rules, method, path) ==
    IF \E k \in DOMAIN rules : RuleMatches(rules[k], method, path)
    THEN rules[CHOOSE k \in DOMAIN rules :
                  /\ RuleMatches(rules[k], method, path)
                  /\ \A j \in 1..(k - 1) : ~RuleMatches(rules[j], method, path)].effect
    ELSE "deny"

(***************************************************************************)
(* Vocabulary of the properties.                                           *)
(***************************************************************************)
\* the configured capability of that name
CapabilityNamed(name) == capabilities[CHOOSE i \in DOMAIN capabilities : capabilities[i].name = name]

ExecuteCalls == {i \in DOMAIN calls : calls[i].tool = "execute"}

\* the execute calls that have returned to the caller
ReturnedExecutes == {i \in ExecuteCalls : calls[i].state = "done"}

\* the execute calls that named a configured capability
KnownExecutes == {i \in ExecuteCalls : calls[i].args.capability \in CapabilityNames}

\* the calls whose request was handed to onExecute and sent upstream
Forwarded(i) == calls[i].outbound # {}

\* the verdict of the capability's rules on the call's method and path
VerdictOf(i) ==
    PolicyVerdict(CapabilityNamed(calls[i].args.capability).rules,
                  calls[i].args.method, calls[i].args.path)

\* the audit records written for call i
AuditOf(i) == {k \in DOMAIN audit : audit[k].call = i}

\* the text execute returns when the broker runs with service map svcs
ReplayedText(svcs, c) ==
    IF EarlyError(capabilities, c.args) # {}
    THEN ErrorText(CHOOSE m \in EarlyError(capabilities, c.args) : TRUE)
    ELSE LET request == ProxyRequest(CapabilityNamed(c.args.capability), c.args)
             up == CHOOSE u \in c.upstream : TRUE
         IN  IF ServiceError(svcs, request) # {}
             THEN ErrorText(CHOOSE m \in ServiceError(svcs, request) : TRUE)
             ELSE IF up.kind = "response" THEN ExecuteText(ProxyResponse(up.res))
             ELSE ErrorText(RequestError(OutboundRequest(svcs, request, c.at), up.failure).message)

(***************************************************************************)
(* C1.  The text an execute call returns does not depend on the service's  *)
(* credentials: with any other set of secrets and the same upstream        *)
(* outcome the caller reads the same text, be it a result, an upstream     *)
(* error status or a thrown error.                                         *)
(***************************************************************************)
C1_ResponseIndependentOfSecrets ==
    \A i \in ReturnedExecutes :
        \A v \in SecretVariants : calls[i].text = ReplayedText(Services(v), calls[i])

\* an upstream failure and an upstream answer, each of a request that carried a credential
C1_Witness ==
    \E i, j \in ReturnedExecutes :
        /\ Forwarded(i) /\ calls[i].isError
        /\ Forwarded(j) /\ ~calls[j].isError
        /\ \A c \in {i, j} : \A o \in calls[c].outbound :
               Range(o.options.headers) \cap CredentialValues(services) # {}

(***************************************************************************)
(* C2.  Every execute call is decided by the first rule of its capability  *)
(* that matches (method, path), and a call no rule allows is denied and    *)
(* not forwarded: a forwarded call has verdict allow.                      *)
(***************************************************************************)
C2_ForwardedOnlyIfAllowed ==
    \A i \in KnownExecutes : Forwarded(i) => VerdictOf(i) = "allow"

(***************************************************************************)
(* C3.  An execute call the policy denies never reaches onExecute and      *)
(* leaves exactly one audit record, with outcome denied.                   *)
(***************************************************************************)
C3_DeniedNotSentAndAudited ==
    \A i \in KnownExecutes \cap ReturnedExecutes :
        (EarlyError(capabilities, calls[i].args) = {} /\ VerdictOf(i) = "deny")
        => /\ ~Forwarded(i)
           /\ Cardinality({k \in AuditOf(i) : Has(audit[k], "outcome")
                                               /\ audit[k].outcome = "denied"}) = 1

(***************************************************************************)
(* C4.  From the instant expiresAt on, that instant included, getSession   *)
(* finds nothing and listSessions omits the session, whether the cleanup   *)
(* timer has fired or not.                                                 *)
(***************************************************************************)
C4_UnusableFromExpiry ==
    \A id \in DOMAIN created :
        TimeLE(created[id].expiresAt, now)
        => /\ GetSessionResult(sessions, id, now) = {}
           /\ \A s \in ListSessionsResult(sessions, now) : s.id # id

(***************************************************************************)
(* C5.  Once revokeSession(id) has returned true, getSession(id) finds     *)
(* nothing and listSessions omits the session, in every later state.       *)
(***************************************************************************)
C5_RevokedIsGone ==
    \A id \in revoked :
        /\ GetSessionResult(sessions, id, now) = {}
        /\ \A s \in ListSessionsResult(sessions, now) : s.id # id

\* a session revoked strictly before its expiry, with the clock moved on since
C5_Witness ==
    \E id \in revoked : TimeLT(created[id].createdAt, now) /\ TimeLT(now, created[id].expiresAt)

(***************************************************************************)
(* C6.  A session that has not been revoked is returned by getSession at   *)
(* every instant before expiresAt, whatever ttl it was created with: the   *)
(* cleanup timer never removes it early.                                   *)
(***************************************************************************)
C6_UsableUntilExpiry ==
    \A id \in (DOMAIN created) \ revoked :
        TimeLT(now, created[id].expiresAt)
        => GetSessionResult(sessions, id, now) = {created[id]}

(***************************************************************************)
(* C7.  A call of execute or get_http_access that names a capability with  *)
(* requiresReason and gives no reason (none, or the empty string) returns  *)
(* an error, and neither createSession nor onExecute has run: the session  *)
(* table, the timers and the audit trail are as before and nothing is sent.*)
(***************************************************************************)
NeedsReason(args) ==
    /\ args.capability \in CapabilityNames
    /\ "requiresReason" \in DOMAIN CapabilityNamed(args.capability)
    /\ CapabilityNamed(args.capability).requiresReason

GivesNoReason(args) == "reason" \notin DOMAIN args \/ args.reason = ""

C7_NoReasonNoEffect ==
    [][ \A i \in (DOMAIN calls') \ (DOMAIN calls) :
            (/\ calls'[i].tool \in {"execute", "get_http_access"}
             /\ NeedsReason(calls'[i].args)
             /\ GivesNoReason(calls'[i].args))
            => /\ calls'[i].state = "done" /\ calls'[i].isError
               /\ calls'[i].session = {} /\ calls'[i].outbound = {}
               /\ sessions' = sessions /\ timers' = timers /\ tokens' = tokens
               /\ audit' = audit ]_vars

\* both tools have refused a call for want of a reason: one with none, one with ""
C7_Witness ==
    \E i, j \in DOMAIN calls :
        /\ calls[i].tool = "execute" /\ calls[j].tool = "get_http_access"
        /\ \A c \in {i, j} : NeedsReason(calls[c].args) /\ GivesNoReason(calls[c].args)
                             /\ calls[c].isError
        /\ \E c \in {i, j} : "reason" \in DOMAIN calls[c].args

(***************************************************************************)
(* C8.  list_services gives, for each capability, exactly the five fields  *)
(* name, service, ttl, autoApprove, requiresReason; get_http_access gives  *)
(* exactly the proxy url of the service, Bearer plus the id of the session *)
(* that call created, and that session's expiry; no field of an            *)
(* authentication descriptor appears in either.                            *)
(***************************************************************************)
ListedFields == {"name", "service", "ttl", "autoApprove", "requiresReason"}

HttpAccessAsClaimed(c) ==
    \E id \in c.session :
        /\ created[id].capability = c.args.capability
        /\ c.text = [ url |-> proxyUrl \o "/" \o CapabilityNamed(c.args.capability).service,
                      headers |-> [Authorization |-> "Bearer " \o id],
                      expires |-> IsoString(created[id].expiresAt) ]
        /\ DOMAIN c.text = {"url", "headers", "expires"}
        /\ \A v \in CredentialValues(services) :
               c.text.headers.Authorization \notin {v, "Bearer " \o v}

\* the claim as written: every entry has all five fields
C8_ExactlyFiveFields ==
    \A i \in DOMAIN calls :
        /\ (calls[i].tool = "list_services") =>
               \A k \in DOMAIN calls[i].text : DOMAIN calls[i].text[k] = ListedFields
        /\ (calls[i].tool = "get_http_access" /\ ~calls[i].isError) =>
               HttpAccessAsClaimed(calls[i])

\* C8 as amended: name, service and ttl always, autoApprove and requiresReason
\* exactly when the capability's configuration sets them, and nothing else
C8_ListedFieldsOnly ==
    \A i \in DOMAIN calls :
        /\ (calls[i].tool = "list_services") =>
               /\ DOMAIN calls[i].text = DOMAIN capabilities
               /\ \A k \in DOMAIN calls[i].text :
                      LET entry == calls[i].text[k] IN
                      /\ DOMAIN entry = ListedFields \cap DOMAIN capabilities[k]
                      /\ {"name", "service", "ttl"} \subseteq DOMAIN entry
                      /\ \A f \in DOMAIN entry : entry[f] = capabilities[k][f]
                      /\ (DOMAIN entry) \cap AuthFields = {}
        /\ (calls[i].tool = "get_http_access" /\ ~calls[i].isError) =>
               HttpAccessAsClaimed(calls[i])

\* both tools have answered
C8_Witness ==
    \E i, j \in DOMAIN calls :
        /\ calls[i].tool = "list_services"
        /\ calls[j].tool = "get_http_access" /\ ~calls[j].isError

(***************************************************************************)
(* C9.  Every execute call for a known capability that was not refused for *)
(* want of a reason has, once it has returned, exactly one audit record,   *)
(* whatever its outcome: answered, denied, failed before or at the         *)
(* upstream call.                                                          *)
(***************************************************************************)
C9_OneAuditRecordPerExecute ==
    \A i \in KnownExecutes \cap ReturnedExecutes :
        ~(NeedsReason(calls[i].args) /\ GivesNoReason(calls[i].args))
        => Cardinality(AuditOf(i)) = 1

(***************************************************************************)
(* C10.  The record handed to the audit logger holds the request as the    *)
(* caller gave it (service, method, path, the caller's headers, body) and  *)
(* the upstream response: nothing the injection added is in it, and no     *)
(* header of the logged request carries a credential value.                *)
(***************************************************************************)
CallerRequest(args) ==
    [ f \in {"service", "method", "path", "headers"}
            \cup (IF "body" \in DOMAIN args THEN {"body"} ELSE {}) |->
        CASE f = "service" -> CapabilityNamed(args.capability).service
          [] f = "method" -> args.method
          [] f = "path" -> args.path
          [] f = "headers" -> (IF "headers" \in DOMAIN args THEN args.headers ELSE <<>>)
          [] f = "body" -> args.body ]

C10_AuditHoldsCallerRequestOnly ==
    \A k \in DOMAIN audit :
        LET c == calls[audit[k].call] IN
        /\ DOMAIN audit[k] = {"request", "response", "call"}
        /\ audit[k].request = CallerRequest(c.args)
        /\ \E up \in c.upstream : up.kind = "response" /\ audit[k].response = ProxyResponse(up.res)
        /\ Range(audit[k].request.headers) \cap CredentialValues(services) = {}

\* an audited request whose outbound form carried injected credential headers
C10_Witness ==
    \E k \in DOMAIN audit : \E o \in calls[audit[k].call].outbound :
        /\ o.options.headers # audit[k].request.headers
        /\ Range(o.options.headers) \cap CredentialValues(services) # {}

(***************************************************************************)
(* C11.  When the upstream call has completed and the audit logger fails   *)
(* to record it, execute still returns the upstream status and body: the   *)
(* failure of the log does not make the call an error.                     *)
(***************************************************************************)
C11_LogFailureKeepsResult ==
    \A i \in ReturnedExecutes :
        \A up \in calls[i].upstream :
            up.kind = "response"
            => /\ ~calls[i].isError
               /\ calls[i].text = ExecuteText(ProxyResponse(up.res))

(***************************************************************************)
(* C12.  When the authentication descriptor of the service lacks what its  *)
(* type needs (bearer without key, an HMAC variant without apiKey or       *)
(* apiSecret, hmac-okx without passphrase) or has a type that is not       *)
(* known, execute returns an error and nothing is sent upstream.           *)
(***************************************************************************)
KnownAuthTypes == {"bearer", "headers", "hmac", "hmac-bybit", "hmac-okx"}

Malformed(auth) ==
    \/ auth.type \notin KnownAuthTypes
    \/ auth.type = "bearer" /\ ~TruthyStr(auth, "key")
    \/ auth.type \in {"hmac", "hmac-bybit", "hmac-okx"}
          /\ ~(TruthyStr(auth, "apiKey") /\ TruthyStr(auth, "apiSecret"))
    \/ auth.type = "hmac-okx" /\ ~TruthyStr(auth, "passphrase")

C12_MalformedAuthIsError ==
    \A i \in KnownExecutes :
        LET service == CapabilityNamed(calls[i].args.capability).service IN
        (service \in DOMAIN services /\ Malformed(services[service].auth))
        => ~Forwarded(i) /\ calls[i].isError

(***************************************************************************)
(* C13.  A request signed for Bybit (hmac-bybit) signs timestamp + apiKey  *)
(* + recvWindow + body when its method is POST or PUT in any case of the   *)
(* letters, with the body even when it is empty and never the query        *)
(* string, and timestamp + apiKey + recvWindow + queryString for GET and   *)
(* DELETE; the timestamp and receive-window headers are the values signed. *)
(***************************************************************************)
\* the query string of a path as the caller wrote it: what follows the first "?"
QueryOf(path) ==
    IF IndexOf(path, "?") = 0 THEN ""
    ELSE Join(SubSeq(path, IndexOf(path, "?") + 1, Len(path)))

\* the forwarded execute calls of the services with that authentication type
\* and a descriptor that has what the type needs
SignedCalls(type) ==
    {i \in KnownExecutes :
        /\ Forwarded(i)
        /\ LET auth == services[CapabilityNamed(calls[i].args.capability).service].auth
           IN  auth.type = type /\ ~Malformed(auth)}

OutboundOf(i) == CHOOSE o \in calls[i].outbound : TRUE

C13_BybitSignedString ==
    \A i \in SignedCalls("hmac-bybit") :
        LET args == calls[i].args
            headers == OutboundOf(i).options.headers
            auth == services[CapabilityNamed(args.capability).service].auth
            data == IF ToUpperCase(args.method) \in {"POST", "PUT"}
                    THEN (IF "body" \in DOMAIN args THEN args.body ELSE "")
                    ELSE QueryOf(args.path)
        IN  ToUpperCase(args.method) \in {"POST", "PUT", "GET", "DELETE"}
            => headers["X-BAPI-SIGN"] =
                   Hmac(auth.apiSecret,
                        headers["X-BAPI-TIMESTAMP"] \o auth.apiKey
                            \o headers["X-BAPI-RECV-WINDOW"] \o data,
                        "hex")

\* a put with an empty body and a query string, and a GET with a query string,
\* signed at different instants
C13_Witness ==
    \E i, j \in SignedCalls("hmac-bybit") :
        /\ calls[i].args.method = "put" /\ calls[i].args.body = ""
        /\ QueryOf(calls[i].args.path) # ""
        /\ calls[j].args.method = "GET" /\ QueryOf(calls[j].args.path) # ""
        /\ calls[i].at # calls[j].at

(***************************************************************************)
(* C14.  A request signed for OKX (hmac-okx) signs timestamp + upper-cased *)
(* method + requestPath + body, where requestPath is the path of the       *)
(* request followed by its query string, each parameter once, and body is  *)
(* empty when absent; the signature is base64 and the timestamp header is  *)
(* the timestamp signed.                                                   *)
(***************************************************************************)
\* the path of the request with its query string, as the upstream API receives it
RequestPathOf(path) ==
    LET q == IndexOf(path, "?")
        pathname == IF q = 0 THEN path ELSE SubSeq(path, 1, q - 1)
    IN  (IF pathname # <<>> /\ Head(pathname) = "/" THEN "" ELSE "/")
        \o Join(pathname)
        \o (IF QueryOf(path) = "" THEN "" ELSE "?" \o QueryOf(path))

C14_OkxSignedString ==
    \A i \in SignedCalls("hmac-okx") :
        LET args == calls[i].args
            headers == OutboundOf(i).options.headers
            auth == services[CapabilityNamed(args.capability).service].auth
            body == IF "body" \in DOMAIN args THEN args.body ELSE ""
        IN  headers["OK-ACCESS-SIGN"] =
                Hmac(auth.apiSecret,
                     headers["OK-ACCESS-TIMESTAMP"] \o ToUpperCase(args.method)
                         \o RequestPathOf(args.path) \o body,
                     "base64")

(***************************************************************************)
(* C15.  A request signed for MEXC (hmac) signs its query string with the  *)
(* generated timestamp parameter; the URL sent carries that timestamp and  *)
(* a signature parameter, the hex HMAC-SHA256 of the signed string under   *)
(* the service secret, and the API key travels as a header only.           *)
(***************************************************************************)
\* the values of the parameters of that name
ParamValues(params, name) == {params[k].value : k \in {j \in DOMAIN params : params[j].name = name}}

\* the query string of the caller followed by timestamp=T
QueryThenTimestamp(path, T) ==
    (IF QueryOf(path) = "" THEN "" ELSE QueryOf(path) \o "&") \o "timestamp=" \o T

\* the query string of the caller with T as the value of its timestamp parameter
QueryWithTimestamp(path, T) ==
    LET q == IndexOf(path, "?")
        params == SearchParams(IF q = 0 THEN <<>> ELSE SubSeq(path, q + 1, Len(path)))
    IN  IF ParamValues(params, "timestamp") = {} THEN QueryThenTimestamp(path, T)
        ELSE ParamsToString([k \in DOMAIN params |->
                 IF params[k].name = "timestamp" THEN [name |-> "timestamp", value |-> T]
                 ELSE params[k]])

\* call i was sent with the generated timestamp, the signature of signedString
\* and the API key in a header and nowhere in the URL
MexcSentWith(i, signedString) ==
    LET out == OutboundOf(i)
        auth == services[CapabilityNamed(calls[i].args.capability).service].auth
    IN  /\ ParamValues(out.url.params, "timestamp") = {TimestampString(calls[i].at)}
        /\ ParamValues(out.url.params, "signature") = {Hmac(auth.apiSecret, signedString, "hex")}
        /\ out.url.query = ParamsToString(out.url.params)
        /\ out.options.headers["X-MEXC-APIKEY"] = auth.apiKey
        /\ \A k \in DOMAIN out.url.params : out.url.params[k].value # auth.apiKey

\* the claim as written: the timestamp parameter is appended to the caller's query
C15_MexcTimestampAppended ==
    \A i \in SignedCalls("hmac") :
        MexcSentWith(i, QueryThenTimestamp(calls[i].args.path, TimestampString(calls[i].at)))

\* C15 as amended: the signed string is the caller's query string in which the
\* timestamp parameter is the generated one, appended when the caller's query
\* has no timestamp parameter and put in the place of the caller's value when
\* it has one; the rest as above
C15_MexcSignedString ==
    \A i \in SignedCalls("hmac") :
        MexcSentWith(i, QueryWithTimestamp(calls[i].args.path, TimestampString(calls[i].at)))

\* a request without a query string and one that came with a timestamp of its own
C15_Witness ==
    \E i, j \in SignedCalls("hmac") :
        /\ QueryOf(calls[i].args.path) = ""
        /\ calls[j].args.path = PathStamped
        /\ calls[i].at # calls[j].at

(***************************************************************************)
(* C16.  Secret paths stay inside the secrets root.                        *)
(***************************************************************************)
\* the operations of a provider on one secret
SecretOps == {"getSecret", "setSecret", "deleteSecret"}

\* C16: whatever the secret path, ".." segments and absolute paths included,
\* the file that getSecret, setSecret or deleteSecret goes to lies strictly
\* inside the secrets root of the provider.
C16_TargetInsideSecretsRoot ==
    last.op \in SecretOps =>
        \A filePath \in last.target : Below(providers[last.provider].secretsDir, filePath)

(***************************************************************************)
(* C17, C18.  The lookup of a secret reference.                            *)
(***************************************************************************)
\* a reference read as the statements read it: the provider is the text
\* before "://", or the default provider where the reference is a bare path
Reference(uri, defaultProvider) ==
    LET k == IndexOf(uri, ":") IN
    IF k > 1 /\ Len(uri) > k + 2 /\ SubSeq(uri, k, k + 2) = <<":", "/", "/">>
    THEN [provider |-> Join(SubSeq(uri, 1, k - 1)), path |-> SubSeq(uri, k + 3, Len(uri))]
    ELSE [provider |-> defaultProvider, path |-> uri]

C18_NullOnlyWhenSecretAbsent ==
    last.op = "resolveSecret" =>
        LET ref == Reference(last.uri, last.defaultProvider)
            registered == ref.provider \in DOMAIN instances
            provider == providers[instances[ref.provider]]
            filePath == resolvePath(provider.secretsDir, ref.path)
            undecryptable == /\ filePath \in DOMAIN disk.files
                             /\ decryptSecret(disk.files[filePath], provider.masterKey) = {}
        IN  /\ last.result.kind = "null" =>
                registered /\ provider.initialized /\ ~ExistsSync(disk, filePath)
            /\ (~registered \/ ~provider.initialized \/ undecryptable) =>
                last.result.kind = "error"

\* a lookup of a stored value that does not decrypt, through a registered and
\* initialized provider
C18_Witness ==
    /\ last.op = "resolveSecret"
    /\ last.result.kind = "error"
    /\ LET ref == Reference(last.uri, last.defaultProvider) IN
       /\ ref.provider \in DOMAIN instances
       /\ providers[instances[ref.provider]].initialized
       /\ resolvePath(providers[instances[ref.provider]].secretsDir, ref.path)
              \in DOMAIN disk.files

(***************************************************************************)
(* C19.  No secret operation through a provider that is not initialized.   *)
(***************************************************************************)
\* the error of a provider that is not initialized
NotInitialized(name) ==
    [ kind |-> "error",
      message |-> "FilesystemProvider \"" \o name \o "\": not initialized. Call initialize() first." ]

\* C19: getSecret, setSecret, deleteSecret and listSecrets of a provider that
\* is not initialized (never initialized, or disposed since) throw the
\* "not initialized" error, go to no file and leave the disk as it is; an
\* initialized provider never throws that error; and a provider enters the
\* registry initialized.
C19_NoSecretOperationBeforeInitialize ==
    /\ last.op \in SecretOps \cup {"listSecrets"} =>
          IF last.initialized
          THEN last.result # NotInitialized(providers[last.provider].name)
          ELSE /\ last.result = NotInitialized(providers[last.provider].name)
               /\ last.target = {}
               /\ ~last.wrote
    /\ last.op = "register" => last.initialized

\* setSecret through a registered provider that has been disposed
C19_Witness ==
    /\ last.op = "setSecret"
    /\ ~last.initialized
    /\ last.provider \in Range(instances)

(***************************************************************************)
(* C20.  Lookups remove only stale records.                                *)
(***************************************************************************)
\* a record that is neither revoked nor expired at the instant t; a session
\* is expired from the instant expiresAt on
ValidSession(session, t) == ~session.revoked /\ TimeLT(t, session.expiresAt)

\* C20: getSession of a valid record of the table returns it and leaves the
\* table as it is, getSession of any other record of the table returns
\* nothing and removes that record alone; listSessions returns exactly the
\* valid records and leaves exactly them in the table.
C20_LookupsRemoveOnlyStale ==
    LET valid == {id \in DOMAIN sessions : ValidSession(sessions[id], now)} IN
    /\ \A id \in DOMAIN sessions :
          IF id \in valid
          THEN /\ GetSessionResult(sessions, id, now) = {sessions[id]}
               /\ GetSessionTable(sessions, id, now) = sessions
          ELSE /\ GetSessionResult(sessions, id, now) = {}
               /\ GetSessionTable(sessions, id, now) = Without(sessions, {id})
    /\ ListSessionsResult(sessions, now) = {sessions[id] : id \in valid}
    /\ ListSessionsTable(sessions, now) = [id \in valid |-> sessions[id]]

(***************************************************************************)
(* C21.  Revoking an absent session.                                       *)
(***************************************************************************)
\* C21: revokeSession of an id that is not in the table (never created,
\* revoked before, or reaped) returns false and leaves the table as it is;
\* so an id whose revocation has returned true gets false from then on.
C21_RevokeAbsentIsNoOp ==
    \A id \in KnownIds :
        (id \notin DOMAIN sessions \/ id \in revoked)
        => /\ ~RevokeSessionResult(sessions, id)
           /\ RevokeSessionTable(sessions, id) = sessions

\* one session has been revoked and another is still in the table
C21_Witness ==
    /\ \E id \in revoked : id \notin DOMAIN sessions
    /\ sessions # EmptyObj

(***************************************************************************)
(* C22.  A session expires after it was created.                           *)
(***************************************************************************)
\* C22: every session execute or get_http_access has created, under any ttl
\* parseTTL accepts, has expiresAt later than createdAt.
C22_ExpiresAfterCreated ==
    \A id \in DOMAIN created : TimeLT(created[id].createdAt, created[id].expiresAt)

(***************************************************************************)
(* C28.  Configuration errors belong to startup.                           *)
(***************************************************************************)
\* the errors that tell of the configuration: a capability whose service is
\* not defined, a ttl parseTTL rejects, a reference to an unregistered provider
ConfigurationErrors ==
    { "Service not found: " \o capabilities[i].service : i \in DOMAIN capabilities }
    \cup { "Invalid TTL format: " \o Join(capabilities[i].ttl) : i \in DOMAIN capabilities }
    \cup { "Provider \"" \o name \o "\" not found" : name \in {"local", "backup", "missing"} }

\* C28: no execute or get_http_access call is answered with the error of an
\* undefined service or of an unparsable ttl, and no resolveSecret call
\* throws the error of an unregistered provider.
C28_NoConfigurationErrorAtRequestTime ==
    /\ \A i \in DOMAIN calls :
          calls[i].isError => calls[i].text.error \notin ConfigurationErrors
    /\ last.op = "resolveSecret" /\ last.result.kind = "error"
          => last.result.message \notin ConfigurationErrors

Granted == {i \in DOMAIN calls : calls[i].session # {}}

\* C24: the session of a granted execute or get_http_access call carries the
\* capability the call names and the service configured for it, the request
\* execute hands to onExecute is for that service, and no two calls have
\* the same session.
C24_SessionOfNamedCapability ==
    /\ \A i \in Granted :
          \A id \in calls[i].session :
              /\ created[id].capability = calls[i].args.capability
              /\ \E k \in DOMAIN capabilities :
                    /\ capabilities[k].name = calls[i].args.capability
                    /\ capabilities[k].service = created[id].service
              /\ \A r \in calls[i].request : r.service = created[id].service
    /\ \A i, j \in Granted : i # j => calls[i].session \cap calls[j].session = {}

\* two granted calls that name different capabilities of different services
C24_Witness ==
    \E i, j \in Granted :
        /\ calls[i].args.capability # calls[j].args.capability
        /\ \E a \in calls[i].session, b \in calls[j].session :
              created[a].service # created[b].service

C26_EveryExecuteReturns ==
    \A i \in 1..MaxCalls :
        (i \in DOMAIN calls /\ calls[i].state = "pending")
            ~> (i \in DOMAIN calls /\ calls[i].state = "done")

C29_ReadsLatestWriteOfPath ==
    /\ last.op = "getSecret" /\ last.initialized =>
        LET key == <<providers[last.provider].name, last.path>> IN
        IF key \in DOMAIN stored.byPath
        THEN last.result = [kind |-> "value", value |-> stored.byPath[key]]
        ELSE last.result = [kind |-> "null"]
    /\ last.op = "getSecret" =>
        /\ ~last.wrote
        /\ GetSecretOutcome(providers[last.provider], disk, last.path).result = last.result

(***************************************************************************)
(* C30.  The parse of a secret reference and the provider it is read from. *)
(***************************************************************************)
\* the ways of reading uri as name://path, name a letter followed by
\* letters, digits, '-' or '_' and path not empty
Qualified(uri) ==
    { [provider |-> {Join(SubSeq(uri, 1, k))}, path |-> SubSeq(uri, k + 4, Len(uri))] :
        k \in { i \in 1..Len(uri) :
                  /\ Len(uri) > i + 3
                  /\ SubSeq(uri, i + 1, i + 3) = <<":", "/", "/">>
                  /\ uri[1] \in Letters
                  /\ \A j \in 2..i : uri[j] \in Letters \cup Digits \cup {"-", "_"} } }

\* what the statement has resolveSecret do with a reference parsed as
\* parsed: read parsed.path from the provider registered under the name,
\* from the default provider where there is no name
ReadsAsParsed(parsed) ==
    LET name == IF parsed.provider = {}
                THEN (IF last.given = {} THEN "local" ELSE CHOOSE n \in last.given : TRUE)
                ELSE CHOOSE n \in parsed.provider : TRUE
    IN  IF name \in DOMAIN instances
        THEN /\ last.consulted = {instances[name]}
             /\ last.target = GetSecretOutcome(providers[instances[name]], disk, parsed.path).target
             /\ last.result = GetSecretOutcome(providers[instances[name]], disk, parsed.path).result
        ELSE last.consulted = {} /\ last.result.kind = "error"

\* C30: parseProviderURI(u) returns (name, path) when u has the form
\* name://path with name a letter followed by letters, digits, '-' or '_'
\* and path non-empty, and (null, u) otherwise; resolveSecret reads path
\* from the provider registered under name, or u from the default provider
\* ('local' unless another is given) when name is null.
C30_ParsesEveryQualifiedReference ==
    last.op \in {"parseProviderURI", "resolveSecret"} =>
    LET parsed == IF Qualified(last.uri) = {} THEN [provider |-> {}, path |-> last.uri]
                  ELSE CHOOSE q \in Qualified(last.uri) : TRUE
    IN  /\ last.op = "parseProviderURI" => last.result = parsed
        /\ last.op = "resolveSecret" => ReadsAsParsed(parsed)

(***************************************************************************)
(* C31.  The life of a session.                                            *)
(***************************************************************************)
\* a session that is not in the table stays out of it
NeverRetrievableAgain(id) ==
    id \notin DOMAIN sessions => id \notin DOMAIN sessions'

\* a session leaves the table by revocation or, once it has expired, by reaping
LeavesRevokedOrExpired(id) ==
    id \in DOMAIN sessions /\ id \notin DOMAIN sessions'
        => id \in revoked' \/ TimeLE(created[id].expiresAt, now)

\* an expired session does not become active again
StaysExpired(id) ==
    TimeLE(created[id].expiresAt, now) => TimeLE(created[id].expiresAt, now')

\* a timer callback removes the session it was scheduled for and no other
TimerRemovesItsOwn ==
    \A timer \in timers \ timers' : sessions' = Without(sessions, {timer.id})

\* C31: in every step of every interleaving of createSession, getSession,
\* revokeSession, listSessions, cleanup and the timer callbacks, each session
\* moves only along active -> expired -> reaped or active -> revoked ->
\* reaped: one that is out of the table never comes back, one that has
\* expired stays expired, one leaves the table only revoked or expired, and a
\* timer callback removes only the session it was scheduled for.
C31_SessionLifeCycle ==
    [][ /\ TimerRemovesItsOwn
        /\ \A id \in DOMAIN created :
              /\ NeverRetrievableAgain(id)
              /\ StaysExpired(id)
              /\ LeavesRevokedOrExpired(id) ]_vars

(***************************************************************************)
(* C32.  Every session is removed in the end.                              *)
(***************************************************************************)
\* C32: every session that is created is eventually removed from the
\* session table, whether or not any operation names it again.
C32_EverySessionRemoved ==
    \A n \in 1..MaxCalls :
        (generateToken("jnee_sess", n) \in DOMAIN sessions)
            ~> (generateToken("jnee_sess", n) \notin DOMAIN sessions)

\* every session made has been removed by its timer alone: none was revoked
\* and one was removed before its expiry, which no sweep does
C32_Witness ==
    /\ Cardinality(DOMAIN created) = MaxCalls
    /\ sessions = EmptyObj
    /\ timers = {}
    /\ revoked = {}
    /\ \E id \in DOMAIN created : TimeLT(now, created[id].expiresAt)

(***************************************************************************)
(* C33.  An expired or revoked session looks like an id never issued.      *)
(***************************************************************************)
\* C33: for a session that is revoked or has reached its expiresAt, in the
\* table or reaped from it, getSession returns undefined, listSessions
\* omits it and revokeSession returns false, which is what each of them
\* answers for an id that was never issued.
C33_StaleLooksNeverIssued ==
    \A id \in DOMAIN created :
        id \in revoked \/ TimeLE(created[id].expiresAt, now)
        => /\ GetSessionResult(sessions, id, now) = GetSessionResult(sessions, "jnee_sess_none", now)
           /\ \A session \in ListSessionsResult(sessions, now) : session.id # id
           /\ RevokeSessionResult(sessions, id) = RevokeSessionResult(sessions, "jnee_sess_none")

(***************************************************************************)
(* C34.  Every failure of a tool call is returned as an error result.      *)
(***************************************************************************)
\* the failures of call i, each with the message of its error
FailuresOf(i) ==
    LET c == calls[i]
        known == c.tool \in {"list_services", "execute", "get_http_access"}
        named == known /\ c.tool # "list_services" /\ c.args.capability \in CapabilityNames
    IN  {"Unknown tool: " \o c.tool : x \in {1} \cap (IF known THEN {} ELSE {1})}
        \cup {"Unknown capability: " \o c.args.capability
                : x \in {1} \cap (IF known /\ c.tool # "list_services" /\ ~named THEN {1} ELSE {})}
        \cup {"Capability \"" \o c.args.capability \o "\" requires a reason"
                : x \in {1} \cap (IF named /\ NeedsReason(c.args) /\ GivesNoReason(c.args)
                                  THEN {1} ELSE {})}
        \cup {"Invalid TTL format: " \o Join(CapabilityNamed(c.args.capability).ttl)
                : x \in {1} \cap (IF named /\ ~TTLMatches(CapabilityNamed(c.args.capability).ttl)
                                  THEN {1} ELSE {})}
        \cup {"Service not found: " \o CapabilityNamed(c.args.capability).service
                : x \in {1} \cap (IF named /\ c.tool = "execute"
                                     /\ CapabilityNamed(c.args.capability).service
                                            \notin DOMAIN services
                                  THEN {1} ELSE {})}
        \cup {up.failure : up \in {u \in c.upstream : u.kind = "failure"}}
        \cup {up.log : up \in {u \in c.upstream : "log" \in DOMAIN u}}

\* C34: a tool call is either still waiting for its upstream response or
\* has returned a result, never an exception; and whenever something failed
\* in it (unknown tool, unknown capability, missing reason, unparseable ttl,
\* a rejection of onExecute) the result has isError true and a text that
\* consists of the message of one of these failures and nothing else, no
\* stack and no credential value.
C34_FailuresAreErrorResults ==
    \A i \in DOMAIN calls :
        /\ calls[i].state \in {"pending", "done"}
        /\ calls[i].state = "done" /\ FailuresOf(i) # {}
           => /\ calls[i].isError
              /\ DOMAIN calls[i].text = {"error"}
              /\ calls[i].text.error \in FailuresOf(i)
              /\ calls[i].text.error \notin CredentialValues(services)

\* a call of an unknown tool and an execute call that onExecute rejected
C34_Witness ==
    /\ \E i \in DOMAIN calls : calls[i].tool \notin {"list_services", "execute", "get_http_access"}
    /\ \E i \in DOMAIN calls : calls[i].state = "done" /\ calls[i].upstream # {} /\ calls[i].isError

(***************************************************************************)
(* C35.  The caller's headers do not touch the injected credentials.       *)
(***************************************************************************)
\* a header name in lower case (header names are compared without regard to case)
LowerCase(name) ==
    CASE name = "Authorization" -> "authorization"
      [] name = "X-Vault-Token" -> "x-vault-token"
      [] name = "X-MEXC-APIKEY" -> "x-mexc-apikey"
      [] name = "X-BAPI-API-KEY" -> "x-bapi-api-key"
      [] name = "X-BAPI-SIGN" -> "x-bapi-sign"
      [] name = "X-BAPI-TIMESTAMP" -> "x-bapi-timestamp"
      [] name = "X-BAPI-RECV-WINDOW" -> "x-bapi-recv-window"
      [] name = "OK-ACCESS-KEY" -> "ok-access-key"
      [] name = "OK-ACCESS-SIGN" -> "ok-access-sign"
      [] name = "OK-ACCESS-TIMESTAMP" -> "ok-access-timestamp"
      [] name = "OK-ACCESS-PASSPHRASE" -> "ok-access-passphrase"
      [] name = "X-Trace" -> "x-trace"
      [] OTHER -> name

\* the authentication headers of a well-formed descriptor whose value is
\* configured, and the names of those whose value is computed
ConfiguredHeaders(auth) ==
    CASE auth.type = "bearer" -> ("Authorization" :> "Bearer " \o auth.key)
      [] auth.type = "headers" -> auth.headers
      [] auth.type = "hmac" -> ("X-MEXC-APIKEY" :> auth.apiKey)
      [] auth.type = "hmac-bybit" -> ("X-BAPI-API-KEY" :> auth.apiKey)
      [] auth.type = "hmac-okx" -> ("OK-ACCESS-KEY" :> auth.apiKey)
                                     @@ ("OK-ACCESS-PASSPHRASE" :> auth.passphrase)

ComputedHeaders(auth) ==
    CASE auth.type = "hmac-bybit" -> {"X-BAPI-SIGN", "X-BAPI-TIMESTAMP", "X-BAPI-RECV-WINDOW"}
      [] auth.type = "hmac-okx" -> {"OK-ACCESS-SIGN", "OK-ACCESS-TIMESTAMP"}
      [] OTHER -> {}

\* C35: on every outbound request of a service with a well-formed
\* descriptor each injected authentication header is there with the
\* configured (or computed) value, and no other header of the request has the
\* same name in another letter case: what the caller supplied under such a
\* name is neither kept in place of the injected header nor beside it, and
\* the caller's other headers are passed on.
C35_CallerHeadersLeaveCredentials ==
    \A i \in KnownExecutes :
        Forwarded(i) /\ ~Malformed(services[CapabilityNamed(calls[i].args.capability).service].auth)
        => LET auth == services[CapabilityNamed(calls[i].args.capability).service].auth
               sent == OutboundOf(i).options.headers
               own == IF "headers" \in DOMAIN calls[i].args THEN calls[i].args.headers ELSE EmptyObj
               injected == (DOMAIN ConfiguredHeaders(auth)) \cup ComputedHeaders(auth)
           IN  /\ \A h \in DOMAIN ConfiguredHeaders(auth) :
                     h \in DOMAIN sent /\ sent[h] = ConfiguredHeaders(auth)[h]
               /\ \A h \in ComputedHeaders(auth) :
                     h \in DOMAIN sent /\ (h \in DOMAIN own => sent[h] # own[h])
               /\ \A h \in injected, k \in DOMAIN sent : LowerCase(k) = LowerCase(h) => k = h
               /\ \A k \in DOMAIN own :
                     LowerCase(k) \notin {LowerCase(h) : h \in injected}
                     => k \in DOMAIN sent /\ sent[k] = own[k]

(***************************************************************************)
(* C36.  listSecrets stays inside the secrets root.                        *)
(***************************************************************************)
\* C36: for every prefix, listSecrets searches the secrets root or a
\* directory inside it, every file it finds lies inside the secrets root,
\* and no path it returns leads out of the root through "..".
C36_ListingInsideSecretsRoot ==
    last.op = "listSecrets" =>
        LET secretsDir == providers[last.provider].secretsDir IN
        /\ \A dir \in last.target : dir = secretsDir \/ Below(secretsDir, dir)
        /\ \A file \in last.listed : Below(secretsDir, file)
        /\ last.result.kind = "list" =>
              \A name \in last.result.value :
                 ~(Len(name) >= 2 /\ name[1] = "." /\ name[2] = ".")

(***************************************************************************)
(* C37.  ensureConnected hands out connected clients only.                 *)
(***************************************************************************)
\* C37: whatever tool calls and the shutdown handler interleave, every call
\* of ensureConnected that has returned handed back a client, never null,
\* and the connect() of that client had completed successfully when the call
\* returned.
C37_ReturnsConnectedClient ==
    \A c \in DOMAIN ensureCalls :
        ensureCalls[c].state = "returned"
        => ensureCalls[c].result # 0 /\ ensureCalls[c].status = "connected"

(***************************************************************************)
(* C38.  One connection attempt at a time, none beside a connected client. *)
(***************************************************************************)
\* the clients whose connect() is under way
AttemptsInProgress == {k \in DOMAIN clients : clients[k].connect = "pending"}

\* a client that is connected and was not closed
ConnectedClientExists ==
    \E k \in DOMAIN clients : clients[k].connect = "connected" /\ ~clients[k].closed

\* C38: at no time is more than one connection attempt in progress, and no
\* step taken while a connected client exists builds a further client (spawns
\* a further subprocess), however many calls of ensureConnected are under way.
C38_OneAttemptAtATime ==
    [][ /\ Cardinality(AttemptsInProgress') <= 1
        /\ ConnectedClientExists => Len(clients') = Len(clients) ]_vars

\* a second caller waits while the attempt of the first is in progress, after
\* the shutdown handler has set mcpClient to null
C38_Witness ==
    /\ Cardinality(AttemptsInProgress) = 1
    /\ mcpClient = 0
    /\ \E c, d \in DOMAIN ensureCalls :
          ensureCalls[c].state = "connecting" /\ ensureCalls[d].state = "waiting"

(***************************************************************************)
(* C39.  A failed connection attempt leaves no client behind.              *)
(***************************************************************************)
\* C39: a connection attempt that failed has been thrown to the caller that
\* made it, and once no attempt is in progress mcpClient does not hold a
\* client whose connect() failed, so that the next call starts a fresh
\* attempt.
C39_FailedClientNotKept ==
    /\ \A c \in DOMAIN ensureCalls :
          (ensureCalls[c].made # 0 /\ clients[ensureCalls[c].made].connect = "failed")
          => ensureCalls[c].state = "thrown"
    /\ (~isConnecting /\ mcpClient # 0) => clients[mcpClient].connect # "failed"

(***************************************************************************)
(* C40.  disposeAll disposes every provider the registry was given.        *)
(***************************************************************************)
\* the providers createProvider has returned
CreatedProviders == DOMAIN providers \ registering

\* C40: when disposeAll has completed, the registry is empty and every
\* provider that createProvider created before has been disposed (it is no
\* longer initialized), a provider whose name a later createProvider took
\* over included.
C40_DisposeAllDisposesEveryProvider ==
    last.op = "disposeAll" =>
        /\ instances = EmptyObj
        /\ \A p \in CreatedProviders : ~providers[p].initialized

====
